---- MODULE Spec2Model ----
(***************************************************************************)
(* Model of the food parsing pipeline of                                   *)
(* backend/apps/openai_service/food_parser.py (FoodParserService) over the *)
(* Food, Meal, MealFood and FoodLog tables.                                *)
(*                                                                         *)
(* Conventions                                                             *)
(*  - a Python str is a sequence of one-character strings;                 *)
(*  - a Python number / Decimal is an integer count of hundredths          *)
(*    (the DecimalFields of the store have decimal_places=2);              *)
(*  - a JSON scalar is a record [t, n, s]: t is "num", "str" or "none";    *)
(*  - a Python dict is a function whose domain is its key set.             *)
(***************************************************************************)
EXTENDS Integers, Sequences, FiniteSets, TLC

VARIABLES foods, meals, mealFoods, foodLogs, runs, last

vars == <<foods, meals, mealFoods, foodLogs, runs, last>>

----------------------------------------------------------------------------
(* Scalars *)

Num(n) == [t |-> "num", n |-> n, s |-> <<>>]
Str(s) == [t |-> "str", n |-> 0, s |-> s]
None == [t |-> "none", n |-> 0, s |-> <<>>]
\* JSON true / false
Bool(b) == [t |-> "bool", n |-> IF b THEN 1 ELSE 0, s |-> <<>>]

\* Python truthiness of a scalar: 0, '' and None are falsy.
Truthy(v) ==
    CASE v.t \in {"num", "bool"} -> v.n # 0
      [] v.t = "str" -> v.s # <<>>
      [] OTHER -> FALSE

EmptyDict == [k \in {} |-> None]

\* dict.update: the right operand wins on common keys.
DictUpdate(a, b) ==
    [k \in DOMAIN a \cup DOMAIN b |-> IF k \in DOMAIN b THEN b[k] ELSE a[k]]

\* {k: v for k, v in d.items() if k in keys}
DictFilter(d, keys) == [k \in DOMAIN d \cap keys |-> d[k]]

Abs(x) == IF x < 0 THEN -x ELSE x

Digits == <<"0", "1", "2", "3", "4", "5", "6", "7", "8", "9">>

IsDigit(c) == \E i \in 1..10 : Digits[i] = c

DigitVal(c) == (CHOOSE i \in 1..10 : Digits[i] = c) - 1

\* The text is a non-empty run of decimal digits (the numeric strings the
\* model draws; any other text is rejected by float() and Decimal()).
IsNumericText(s) == Len(s) > 0 /\ \A i \in 1..Len(s) : IsDigit(s[i])

RECURSIVE TextToInt(_)
TextToInt(s) ==
    IF s = <<>> THEN 0
    ELSE 10 * TextToInt(SubSeq(s, 1, Len(s) - 1)) + DigitVal(s[Len(s)])

\* Decimal(str(v)): numbers and numeric text convert; 'None', 'True' and
\* other text raise InvalidOperation.
DecimalOk(v) == v.t = "num" \/ (v.t = "str" /\ IsNumericText(v.s))

\* Value of such a scalar, in hundredths.
DecimalValue(v) == IF v.t = "num" THEN v.n ELSE 100 * TextToInt(v.s)

\* str(counter) for a positive counter.
RECURSIVE IntToText(_)
IntToText(n) ==
    IF n < 10 THEN <<Digits[n + 1]>>
    ELSE IntToText(n \div 10) \o <<Digits[(n % 10) + 1]>>

----------------------------------------------------------------------------
(* MetadataSynthesizer: _get_default_metadata, _ensure_complete_metadata,  *)
(* _generate_metadata                                                      *)

\* The defaults table of _get_default_metadata.
Defaults ==
    [serving_size  |-> Num(10000),
     unit          |-> Str(<<"g">>),
     calories      |-> Num(0),
     protein       |-> Num(0),
     fat           |-> Num(0),
     carbohydrates |-> Num(0),
     fiber         |-> Num(0),
     sodium        |-> Num(0),
     sugar         |-> Num(0),
     saturated_fat |-> Num(0),
     trans_fat     |-> Num(0),
     calcium       |-> Num(0),
     iron          |-> Num(0),
     magnesium     |-> Num(0),
     cholesterol   |-> Num(0),
     vitamin_a     |-> Num(0),
     vitamin_c     |-> Num(0),
     vitamin_d     |-> Num(0),
     caffeine      |-> Num(0),
     food_group    |-> Str(<<"o", "t", "h", "e", "r">>),
     brand         |-> Str(<<>>),
     cost          |-> None]

\* valid_fields = set(defaults.keys())
Whitelist == DOMAIN Defaults

GetDefaultMetadata(existing) ==
    DictUpdate(Defaults, DictFilter(existing, Whitelist))

\* Mutant: the defaults are filled in but foreign keys are not dropped.
EnsureCompleteMetadataUnfiltered(metadata) ==
    [k \in Whitelist \cup DOMAIN metadata |->
        IF k \notin DOMAIN metadata \/ metadata[k] = None
        THEN Defaults[k]
        ELSE metadata[k]]

EnsureCompleteMetadata(metadata) ==
    LET valid_metadata == DictFilter(metadata, Whitelist)
    IN  [k \in Whitelist |->
            IF k \notin DOMAIN valid_metadata \/ valid_metadata[k] = None
            THEN Defaults[k]
            ELSE valid_metadata[k]]


----------------------------------------------------------------------------
(* Gateway responses.  A response is [success, null, lines]: `null' says   *)
(* the completion carried no content (response['response'] is None);       *)
(* `lines' is the text, one record [fence, json] per line: a line that     *)
(* starts with ``` or a line of payload.  A payload is [t, obj, arr]:      *)
(* t = "garbage" (not JSON), "scalar", "object" (obj is the dict) or       *)
(* "array" (arr is the list).                                              *)

Garbage == [t |-> "garbage", obj |-> EmptyDict, arr |-> <<>>]
Scalar == [t |-> "scalar", obj |-> EmptyDict, arr |-> <<>>]
Object(d) == [t |-> "object", obj |-> d, arr |-> <<>>]
Array(a) == [t |-> "array", obj |-> EmptyDict, arr |-> a]

Fence == [fence |-> TRUE, json |-> Garbage]
Payload(j) == [fence |-> FALSE, json |-> j]

Failure == [success |-> FALSE, null |-> FALSE, lines |-> <<>>]
NoContent == [success |-> TRUE, null |-> TRUE, lines |-> <<>>]
Text(lines) == [success |-> TRUE, null |-> FALSE, lines |-> lines]

\* The loop that keeps the lines inside ``` fences.
RECURSIVE CodeBlockLines(_, _)
CodeBlockLines(lines, in_code_block) ==
    IF lines = <<>> THEN <<>>
    ELSE IF Head(lines).fence
         THEN CodeBlockLines(Tail(lines), ~in_code_block)
         ELSE (IF in_code_block THEN <<Head(lines)>> ELSE <<>>)
              \o CodeBlockLines(Tail(lines), in_code_block)

\* "Remove markdown code blocks if present": only a text that starts with a
\* fence is rewritten.
StripCodeFences(lines) ==
    IF lines # <<>> /\ lines[1].fence
    THEN CodeBlockLines(lines, FALSE)
    ELSE lines

\* json.loads of the joined lines: it parses when the text is one payload.
JsonLoads(lines) ==
    IF Len(lines) = 1 /\ ~lines[1].fence THEN lines[1].json ELSE Garbage

Returned(v) == [raised |-> FALSE, value |-> v]
Raised == [raised |-> TRUE, value |-> EmptyDict]

\* _generate_metadata after the gateway answered `response'.
GenerateMetadata(existing_metadata, response) ==
    IF ~response.success THEN Returned(GetDefaultMetadata(existing_metadata))
    ELSE IF response.null THEN Raised
    ELSE
      LET parsed == JsonLoads(StripCodeFences(response.lines))
          useFirst == parsed.t = "array" /\ Len(parsed.arr) > 0
          generated == IF useFirst THEN parsed.arr[1] ELSE parsed
      IN  IF parsed.t = "garbage"
          THEN Returned(GetDefaultMetadata(existing_metadata))
          ELSE IF ~useFirst /\ parsed.t # "object"
          THEN Returned(GetDefaultMetadata(existing_metadata))
          ELSE IF generated.t # "object" THEN Raised
          ELSE Returned(EnsureCompleteMetadata(
                   DictUpdate(generated.obj,
                              DictFilter(existing_metadata, Whitelist))))

----------------------------------------------------------------------------
(* Text helpers *)

UpperCase == <<"A", "B", "C", "D", "E", "F", "G", "H", "I", "J", "K", "L", "M",
               "N", "O", "P", "Q", "R", "S", "T", "U", "V", "W", "X", "Y", "Z">>

LowerCase == <<"a", "b", "c", "d", "e", "f", "g", "h", "i", "j", "k", "l", "m",
               "n", "o", "p", "q", "r", "s", "t", "u", "v", "w", "x", "y", "z">>

LowerChar(c) ==
    IF \E i \in 1..26 : UpperCase[i] = c
    THEN LowerCase[CHOOSE i \in 1..26 : UpperCase[i] = c]
    ELSE c

ToLower(s) == [i \in 1..Len(s) |-> LowerChar(s[i])]

\* The __iexact lookup: equal up to letter case.
IExact(a, b) == ToLower(a) = ToLower(b)

\* str.strip()
RECURSIVE Strip(_)
Strip(s) ==
    IF s = <<>> THEN s
    ELSE IF Head(s) = " " THEN Strip(Tail(s))
    ELSE IF s[Len(s)] = " " THEN Strip(SubSeq(s, 1, Len(s) - 1))
    ELSE s

----------------------------------------------------------------------------
(* EntityResolver: _metadata_matches *)

CaloriesTolerance == 1000
ProteinTolerance == 200
ServingSizeTolerance == 10

\* float(v): numbers, booleans and numeric text convert; None and other
\* text raise.
FloatOk(v) == v.t \in {"num", "bool"} \/ (v.t = "str" /\ IsNumericText(v.s))

FloatValue(v) ==
    CASE v.t = "num" -> v.n
      [] v.t = "bool" -> 100 * v.n
      [] OTHER -> 100 * TextToInt(v.s)

\* Pairs <<x, y, tol>> (hundredths) with |x - y| = tol for which binary64
\* arithmetic gives abs(float(x) - float(y)) > tol, because neither 0.1 nor
\* the operands are exact doubles: abs(1.0 - 1.1) is 0.10000000000000009,
\* which is above the double 0.1.  The table lists every such pair among
\* the numbers the model draws.
FloatRoundsAbove == {<<100, 110, 10>>, <<110, 100, 10>>}

\* abs(float(x) - float(y)) > tol.  Away from the boundary the operands are
\* multiples of 0.01 and the rounding error (below 1e-12) cannot change the
\* comparison; on the boundary the table decides.
AbsDiffExceeds(x, y, tol) ==
    IF Abs(x - y) = tol
    THEN <<x, y, tol>> \in FloatRoundsAbove
    ELSE Abs(x - y) > tol

Verdict(b) == [raised |-> FALSE, value |-> b]
VerdictRaised == [raised |-> TRUE, value |-> FALSE]

\* The serving_size and unit checks (last part of _metadata_matches).
SizeAndUnitMatch(food, metadata) ==
    IF "serving_size" \in DOMAIN metadata /\ ~FloatOk(metadata["serving_size"])
    THEN VerdictRaised
    ELSE IF "serving_size" \in DOMAIN metadata
            /\ AbsDiffExceeds(FloatValue(food.data["serving_size"]),
                              FloatValue(metadata["serving_size"]),
                              ServingSizeTolerance)
    THEN Verdict(FALSE)
    ELSE IF "unit" \in DOMAIN metadata /\ food.data["unit"] # metadata["unit"]
    THEN Verdict(FALSE)
    ELSE Verdict(TRUE)

\* Mutant: a stored food without brand accepts any brand hint, whatever
\* other keys the metadata holds.
BrandMatchAnyHint(food, metadata) ==
    IF "brand" \in DOMAIN metadata /\ Truthy(metadata["brand"])
    THEN IF ~Truthy(food.data["brand"])
         THEN Verdict(TRUE)
         ELSE IF food.data["brand"] # metadata["brand"]
         THEN Verdict(FALSE)
         ELSE SizeAndUnitMatch(food, metadata)
    ELSE SizeAndUnitMatch(food, metadata)

\* The brand check and what follows it.
BrandMatch(food, metadata) ==
    IF "brand" \in DOMAIN metadata /\ Truthy(metadata["brand"])
    THEN IF ~Truthy(food.data["brand"]) /\ Cardinality(DOMAIN metadata) = 1
         THEN Verdict(TRUE)
         ELSE IF food.data["brand"] # metadata["brand"]
         THEN Verdict(FALSE)
         ELSE SizeAndUnitMatch(food, metadata)
    ELSE SizeAndUnitMatch(food, metadata)

\* The protein check and what follows it.
ProteinMatch(food, metadata) ==
    IF "protein" \in DOMAIN metadata /\ ~FloatOk(metadata["protein"])
    THEN VerdictRaised
    ELSE IF "protein" \in DOMAIN metadata
            /\ AbsDiffExceeds(FloatValue(food.data["protein"]),
                              FloatValue(metadata["protein"]),
                              ProteinTolerance)
    THEN Verdict(FALSE)
    ELSE BrandMatch(food, metadata)

\* _metadata_matches(food, metadata): a verdict, or the exception float()
\* raises on a value that is no number.
MetadataMatches(food, metadata) ==
    IF DOMAIN metadata = {} THEN Verdict(TRUE)
    ELSE IF "calories" \in DOMAIN metadata /\ ~FloatOk(metadata["calories"])
    THEN VerdictRaised
    ELSE IF "calories" \in DOMAIN metadata
            /\ AbsDiffExceeds(FloatValue(food.data["calories"]),
                              FloatValue(metadata["calories"]),
                              CaloriesTolerance)
    THEN Verdict(FALSE)
    ELSE ProteinMatch(food, metadata)

----------------------------------------------------------------------------
(* The store.  A database is [foods, meals, mealFoods, foodLogs], each a   *)
(* sequence of rows in insertion order; the AutoField key of a row is its  *)
(* position.                                                               *)
(*   Food     [food_id, food_name, make_public, data]  (data: the 22       *)
(*            nutrient/identity columns)                                   *)
(*   Meal     [meal_id, user, meal_name]                                   *)
(*   MealFood [meal, food, servings]                                       *)
(*   FoodLog  [macro_log_id, user, food, servings, measurement]            *)

\* The DecimalField columns that are NOT NULL.
NumericColumns == Whitelist \ {"unit", "food_group", "brand", "cost"}

\* Whether the column accepts the value on insert.
ColumnAccepts(k, v) ==
    CASE k \in NumericColumns -> FloatOk(v)
      [] k = "cost" -> v = None \/ FloatOk(v)
      [] k \in {"unit", "food_group"} -> v # None
      [] OTHER -> TRUE

\* The value the column holds after the insert.
ColumnValue(k, v) ==
    IF k \in NumericColumns \/ (k = "cost" /\ v # None)
    THEN Num(FloatValue(v))
    ELSE v

\* BooleanField.to_python: the values make_public accepts.
BooleanAccepts(v) ==
    \/ v.t = "bool"
    \/ v.t = "num" /\ v.n \in {0, 100}
    \/ v.t = "str" /\ v.s \in {<<"t">>, <<"T", "r", "u", "e">>, <<"1">>,
                               <<"f">>, <<"F", "a", "l", "s", "e">>, <<"0">>}

BooleanValue(v) ==
    IF v.t = "str" THEN v.s \in {<<"t">>, <<"T", "r", "u", "e">>, <<"1">>}
    ELSE v.n # 0

\* CharField.to_python of the food_name value: str(value), for text and for
\* whole numbers.
TextOf(v) ==
    CASE v.t = "str" -> v.s
      [] v.t = "bool" -> IF v.n = 1 THEN <<"T", "r", "u", "e">>
                         ELSE <<"F", "a", "l", "s", "e">>
      [] v.t = "none" -> <<"N", "o", "n", "e">>
      [] OTHER -> IntToText(v.n \div 100)

\* Food.objects.filter(food_name=name).exists()
FoodNameExists(db, name) ==
    \E i \in 1..Len(db.foods) : db.foods[i].food_name = name

\* `error' names the exception that left a call; str(e) of that exception
\* is what parse_food_input appends to the errors of the composite result.
Created(db, id) == [raised |-> FALSE, db |-> db, id |-> id, error |-> ""]
CreateRaised(db, error) ==
    [raised |-> TRUE, db |-> db, id |-> 0, error |-> error]

\* Mutant: the store accepts an INSERT that repeats a food_name.
CreateFoodUnconstrained(db, food_name, make_public, data) ==
    IF \/ ~BooleanAccepts(make_public)
       \/ \E k \in Whitelist : ~ColumnAccepts(k, data[k])
    THEN CreateRaised(db, "ValidationError")
    ELSE Created([db EXCEPT !.foods =
                     Append(@, [food_id |-> Len(db.foods) + 1,
                                food_name |-> TextOf(food_name),
                                make_public |-> BooleanValue(make_public),
                                data |-> [k \in Whitelist |->
                                             ColumnValue(k, data[k])]])],
                 Len(db.foods) + 1)

\* Food.objects.create(**food_data), food_data = data plus food_name and
\* make_public.  A value its column cannot convert raises before the INSERT
\* is sent; food_name is unique, and the store rejects an INSERT that
\* repeats a name.
CreateFood(db, food_name, make_public, data) ==
    IF \/ ~BooleanAccepts(make_public)
       \/ \E k \in Whitelist : ~ColumnAccepts(k, data[k])
    THEN CreateRaised(db, "ValidationError")
    ELSE IF FoodNameExists(db, TextOf(food_name))
    THEN CreateRaised(db, "IntegrityError: food_name")
    ELSE LET id == Len(db.foods) + 1
             row == [food_id |-> id,
                     food_name |-> TextOf(food_name),
                     make_public |-> BooleanValue(make_public),
                     data |-> [k \in Whitelist |-> ColumnValue(k, data[k])]]
         IN  Created([db EXCEPT !.foods = Append(@, row)], id)

----------------------------------------------------------------------------
(* EntityResolver: _create_food_duplicate, _create_new_food                *)

VariantSuffix == <<" ", "(", "v", "a", "r", "i", "a", "n", "t", ")">>

NumberedVariantSuffix(counter) ==
    <<" ", "(", "v", "a", "r", "i", "a", "n", "t", " ">>
        \o IntToText(counter) \o <<")">>

NumberedSuffix(counter) == <<" ", "(">> \o IntToText(counter) \o <<")">>

RECURSIVE NextVariantName(_, _, _)

\* Mutant: the loop stops after its first step, whether the name is free or
\* not.
NextVariantNameOneStep(db, original_name, counter) ==
    original_name \o NumberedVariantSuffix(counter + 1)

\* The while loop of _create_food_duplicate, entered with `new_name' taken.
NextVariantName(db, original_name, counter) ==
    LET new_name == original_name \o NumberedVariantSuffix(counter + 1)
    IN  IF FoodNameExists(db, new_name)
        THEN NextVariantName(db, original_name, counter + 1)
        ELSE new_name

VariantName(db, original_name) ==
    IF FoodNameExists(db, original_name \o VariantSuffix)
    THEN NextVariantName(db, original_name, 1)
    ELSE original_name \o VariantSuffix

\* The keys of food_data that the caller metadata may override.
DuplicateValidFields == Whitelist \cup {"food_name", "make_public"}

\* food_data[key] after the override loop of _create_food_duplicate.
DuplicateField(key, copied, metadata) ==
    IF key \in DOMAIN metadata /\ Truthy(metadata[key])
    THEN metadata[key]
    ELSE copied

\* Mutant: the flag is copied from the original like the other fields.
DuplicateMakePublicCopied(original_food) == Bool(original_food.make_public)

\* Mutant: the override is written to the original row, and no row is
\* inserted.
CreateFoodDuplicateInPlace(db, original_food, metadata) ==
    Created([db EXCEPT !.foods[original_food.food_id].data =
                [k \in Whitelist |->
                    DuplicateField(k, original_food.data[k], metadata)]],
            original_food.food_id)

\* The make_public entry of food_data before the override loop.
DuplicateMakePublic(original_food) == Bool(FALSE)

CreateFoodDuplicate(db, original_food, metadata) ==
    LET new_name == VariantName(db, original_food.food_name)
    IN  CreateFood(db,
            DuplicateField("food_name", Str(new_name), metadata),
            DuplicateField("make_public", DuplicateMakePublic(original_food),
                           metadata),
            [k \in Whitelist |->
                DuplicateField(k, original_food.data[k], metadata)])

\* The while loop of _create_new_food, entered with `name' taken.
RECURSIVE NextFreeName(_, _, _)
NextFreeName(db, name, counter) ==
    IF FoodNameExists(db, name \o NumberedSuffix(counter))
    THEN NextFreeName(db, name, counter + 1)
    ELSE name \o NumberedSuffix(counter)

NewFoodName(db, name) ==
    IF FoodNameExists(db, name) THEN NextFreeName(db, name, 1) ELSE name

\* _create_new_food once the gateway answered the synthesis prompt.
CreateWithMetadata(db, name, complete_metadata) ==
    IF complete_metadata.raised THEN CreateRaised(db, "AttributeError")
    ELSE CreateFood(db, Str(NewFoodName(db, name)), Bool(TRUE),
                    complete_metadata.value)

CreateNewFood(db, name, metadata, response) ==
    CreateWithMetadata(db, name, GenerateMetadata(metadata, response))

----------------------------------------------------------------------------
(* EntityResolver: _process_single_food                                    *)

\* Mutant: the lookup is not restricted to the meals of the acting user.
MealsMatchingAnyOwner(db, user, name) ==
    {i \in 1..Len(db.meals) : IExact(db.meals[i].meal_name, name)}

\* Meal.objects.get(user=self.user, meal_name__iexact=name): the keys of
\* the rows the lookup finds.
MealsMatching(db, user, name) ==
    {i \in 1..Len(db.meals) :
        db.meals[i].user = user /\ IExact(db.meals[i].meal_name, name)}

\* Food.objects.get(food_name__iexact=name): the keys of the rows found.
FoodsMatching(db, name) ==
    {i \in 1..Len(db.foods) : IExact(db.foods[i].food_name, name)}

\* .first() of an unordered queryset orders by primary key.
First(ids) == CHOOSE i \in ids : \A j \in ids : i <= j

\* What _process_single_food hands back: `raised' when an exception left it,
\* else the result dict in `entry'; `calls' counts its gateway calls.  The
\* entry also carries `seen', the number of Food rows when resolution began,
\* and `calls', the gateway calls this candidate caused.
Outcome(db, data, servings, source, food, meal, calls) ==
    [raised |-> FALSE, db |-> db, calls |-> calls, error |-> "",
     entry |-> [name |-> Strip(data.name), metadata |-> data.metadata,
                servings |-> servings, source |-> source,
                food_object |-> food, meal_object |-> meal,
                seen |-> 0, calls |-> 0]]

ProcessRaised(db, data, calls, error) ==
    [raised |-> TRUE, db |-> db, calls |-> calls, error |-> error,
     entry |-> [name |-> Strip(data.name), metadata |-> data.metadata,
                servings |-> 0, source |-> "raised",
                food_object |-> 0, meal_object |-> 0, seen |-> 0,
                calls |-> 0]]

\* servings = Decimal(str(metadata.get('servings', '1')))
ServingsOk(metadata) ==
    "servings" \in DOMAIN metadata => DecimalOk(metadata["servings"])

Servings(metadata) ==
    IF "servings" \in DOMAIN metadata
    THEN DecimalValue(metadata["servings"])
    ELSE 100

\* Step 3: the food is not in the store.
\* The outcome once the create of a Food row returned or raised.
FoodCreated(made, data, source, calls) ==
    IF made.raised THEN ProcessRaised(made.db, data, calls, made.error)
    ELSE Outcome(made.db, data, Servings(data.metadata), source, made.id, 0,
                 calls)

ProcessNewFood(db, data, response) ==
    FoodCreated(CreateNewFood(db, Strip(data.name), data.metadata, response),
                data, "food_new", 1)

\* Step 2, one stored food has the name.
ProcessExistingFood(db, data, existing_food) ==
    LET verdict == MetadataMatches(existing_food, data.metadata)
    IN  IF verdict.raised THEN ProcessRaised(db, data, 0, "ValueError")
        ELSE IF verdict.value
        THEN Outcome(db, data, Servings(data.metadata), "food_exact",
                     existing_food.food_id, 0, 0)
        ELSE FoodCreated(CreateFoodDuplicate(db, existing_food,
                                             data.metadata),
                         data, "food_duplicate", 0)

\* Step 2: check the foods database.
ProcessFoodLookup(db, data, response) ==
    LET found == FoodsMatching(db, Strip(data.name))
    IN  IF found = {} THEN ProcessNewFood(db, data, response)
        ELSE IF Cardinality(found) = 1
        THEN ProcessExistingFood(db, data, db.foods[First(found)])
        ELSE Outcome(db, data, Servings(data.metadata), "food_exact",
                     First(found), 0, 0)

\* The outcome r of a candidate, with the bookkeeping of its entry filled
\* in: the Food rows in `db' when resolution began and its gateway calls.
Stamped(db, r) ==
    [r EXCEPT !.entry.seen = Len(db.foods), !.entry.calls = r.calls]

\* Mutant: the foods database is consulted before the user's meals.
ProcessSingleFoodFoodsFirst(db, user, data, response) ==
    LET found == MealsMatching(db, user, Strip(data.name))
    IN  Stamped(db,
            IF ~ServingsOk(data.metadata)
            THEN ProcessRaised(db, data, 0, "InvalidOperation")
            ELSE IF FoodsMatching(db, Strip(data.name)) # {} \/ found = {}
            THEN ProcessFoodLookup(db, data, response)
            ELSE IF Cardinality(found) = 1
            THEN Outcome(db, data, Servings(data.metadata), "meal", 0,
                         First(found), 0)
            ELSE ProcessRaised(db, data, 0, "MultipleObjectsReturned"))

\* _process_single_food(food_data) for `user'; `response' is the gateway's
\* answer to the synthesis prompt, should the new-food path be taken.
ProcessSingleFood(db, user, data, response) ==
    LET found == MealsMatching(db, user, Strip(data.name))
    IN  Stamped(db,
            IF ~ServingsOk(data.metadata)
            THEN ProcessRaised(db, data, 0, "InvalidOperation")
            ELSE IF found = {} THEN ProcessFoodLookup(db, data, response)
            ELSE IF Cardinality(found) = 1
            THEN Outcome(db, data, Servings(data.metadata), "meal", 0,
                         First(found), 0)
            ELSE ProcessRaised(db, data, 0, "MultipleObjectsReturned"))

----------------------------------------------------------------------------
(* CandidateParser: _parse_foods_from_text.  In a parse response the       *)
(* elements of an array are the candidates [name, metadata].               *)

Parsed(list) == [raised |-> FALSE, foods |-> list]
ParseRaised == [raised |-> TRUE, foods |-> <<>>]

ParseFoodsFromText(response) ==
    IF ~response.success THEN Parsed(<<>>)
    ELSE IF response.null THEN ParseRaised
    ELSE LET parsed == JsonLoads(StripCodeFences(response.lines))
         IN  IF parsed.t = "array" THEN Parsed(parsed.arr) ELSE Parsed(<<>>)

----------------------------------------------------------------------------
(* LogAndMealAssembler: _create_food_log, _generate_meal_name,             *)
(* _create_meal_from_foods                                                 *)

MealNameLength == 50

\* Mutant: the name is looked up among the meals of every owner.
MealNameExistsAnyOwner(db, user, meal_name) ==
    \E i \in 1..Len(db.meals) : db.meals[i].meal_name = meal_name

\* Meal.objects.filter(user=self.user, meal_name=meal_name).exists()
MealNameExists(db, user, meal_name) ==
    \E i \in 1..Len(db.meals) :
        db.meals[i].user = user /\ db.meals[i].meal_name = meal_name

RECURSIVE NextMealName(_, _, _, _)
NextMealName(db, user, base_name, counter) ==
    IF MealNameExists(db, user, base_name \o NumberedSuffix(counter + 1))
    THEN NextMealName(db, user, base_name, counter + 1)
    ELSE base_name \o NumberedSuffix(counter + 1)

GenerateMealName(db, user, input_text) ==
    LET base_name ==
            Strip(SubSeq(input_text, 1,
                         IF Len(input_text) < MealNameLength
                         THEN Len(input_text) ELSE MealNameLength))
    IN  IF MealNameExists(db, user, base_name)
        THEN NextMealName(db, user, base_name, 1)
        ELSE base_name

\* FoodLog.servings is a DecimalField(max_digits=8, decimal_places=2): a
\* value of 1,000,000.00 or more (in hundredths) cannot be stored, and the
\* create raises decimal.InvalidOperation.
ServingsLimit == 100000000

FoodLogAccepts(processed) ==
    processed.servings < ServingsLimit /\ processed.servings > -ServingsLimit

\* FoodLog.objects.create(...) for one processed food whose servings the
\* column accepts.
CreateFoodLog(db, user, processed) ==
    [db EXCEPT !.foodLogs =
        Append(@, [macro_log_id |-> Len(@) + 1,
                   user |-> user,
                   food |-> processed.food_object,
                   servings |-> processed.servings,
                   measurement |->
                       db.foods[processed.food_object].data["unit"]])]

\* Step 3 of parse_food_input: one log per processed food that holds a food
\* object; a create that raises leaves the loop with the logs made so far.
\* Returns [raised, db, logs_created].
RECURSIVE CreateFoodLogs(_, _, _, _)
CreateFoodLogs(db, user, processed_foods, logs_created) ==
    IF processed_foods = <<>>
    THEN [raised |-> FALSE, db |-> db, logs_created |-> logs_created]
    ELSE LET processed == Head(processed_foods)
             logged == CreateFoodLog(db, user, processed)
         IN  IF processed.food_object # 0 /\ ~FoodLogAccepts(processed)
             THEN [raised |-> TRUE, db |-> db, logs_created |-> logs_created]
             ELSE IF processed.food_object # 0
             THEN CreateFoodLogs(logged, user, Tail(processed_foods),
                      Append(logs_created,
                          [log_id |-> Len(logged.foodLogs),
                           food_name |->
                               db.foods[processed.food_object].food_name,
                           servings |-> processed.servings]))
             ELSE CreateFoodLogs(db, user, Tail(processed_foods),
                                 logs_created)

\* The (meal, food, servings) rows one processed food asks for: its own, or
\* a copy of the rows of the meal it referenced.
RowsWanted(db, processed) ==
    IF processed.food_object # 0
    THEN <<[food |-> processed.food_object, servings |-> processed.servings]>>
    ELSE IF processed.meal_object # 0
    THEN LET all == SelectSeq(db.mealFoods,
                        LAMBDA mf : mf.meal = processed.meal_object)
         IN  [i \in 1..Len(all) |->
                 [food |-> all[i].food, servings |-> all[i].servings]]
    ELSE <<>>

RECURSIVE AllRowsWanted(_, _)
AllRowsWanted(db, processed_foods) ==
    IF processed_foods = <<>> THEN <<>>
    ELSE RowsWanted(db, Head(processed_foods))
         \o AllRowsWanted(db, Tail(processed_foods))

\* MealFood.objects.create one row after the other; (meal, food) is unique,
\* and the first rejected insert raises.  Returns [raised, db].
RECURSIVE AddMealFoods(_, _, _)
AddMealFoods(db, meal, rows) ==
    IF rows = <<>> THEN [raised |-> FALSE, db |-> db]
    ELSE IF \E i \in 1..Len(db.mealFoods) :
                db.mealFoods[i].meal = meal
                /\ db.mealFoods[i].food = Head(rows).food
    THEN [raised |-> TRUE, db |-> db]
    ELSE AddMealFoods(
             [db EXCEPT !.mealFoods =
                 Append(@, [meal |-> meal, food |-> Head(rows).food,
                            servings |-> Head(rows).servings])],
             meal, Tail(rows))

\* _create_meal_from_foods: returns [db, meal], meal = 0 for None (the
\* except branch, which leaves the rows already inserted).
CreateMealFromFoods(db, user, processed_foods, input_text) ==
    LET meal_name == GenerateMealName(db, user, input_text)
        meal == Len(db.meals) + 1
        withMeal == [db EXCEPT !.meals =
                        Append(@, [meal_id |-> meal, user |-> user,
                                   meal_name |-> meal_name])]
        added == AddMealFoods(withMeal, meal,
                              AllRowsWanted(withMeal, processed_foods))
    IN  [db |-> added.db, meal |-> IF added.raised THEN 0 ELSE meal]

----------------------------------------------------------------------------
(* ResolutionPipeline: parse_food_input                                    *)

NoMeal == [meal_id |-> 0, meal_name |-> <<>>]

Result(success, foods_parsed, logs_created, meal_created, errors) ==
    [success |-> success, foods_parsed |-> foods_parsed,
     logs_created |-> logs_created, meal_created |-> meal_created,
     errors |-> errors]

\* Step 2: the candidates in order, each on the store the earlier ones left;
\* responses[k] answers the k-th synthesis call of the run.  An exception
\* leaves the loop.  Returns [raised, db, calls, done].
RECURSIVE ProcessAll(_, _, _, _, _, _)

\* The body of the loop after _process_single_food handed back r.
ProcessNext(r, user, rest, responses, calls, done) ==
    IF r.raised
    THEN [raised |-> TRUE, db |-> r.db, calls |-> calls + r.calls,
          done |-> done, error |-> r.error]
    ELSE ProcessAll(r.db, user, rest, responses, calls + r.calls,
                    Append(done, r.entry))

ProcessAll(db, user, parsed_foods, responses, calls, done) ==
    IF parsed_foods = <<>>
    THEN [raised |-> FALSE, db |-> db, calls |-> calls, done |-> done,
          error |-> ""]
    ELSE ProcessNext(ProcessSingleFood(db, user, Head(parsed_foods),
                                       responses[calls + 1]),
                     user, Tail(parsed_foods), responses, calls, done)

\* Mutant: the early return is never taken.
NothingParsedIgnored(parsed_foods) == FALSE

\* Whether `if not parsed_foods' takes the early return.
NothingParsed(parsed_foods) == parsed_foods = <<>>

\* Steps 3 and 4, after every candidate was processed.
\* The composite result of a run that reached the end.
Assembled(processed_foods, logs_created, made) ==
    [db |-> made.db,
     result |->
        Result(TRUE, processed_foods, logs_created,
               IF made.meal = 0 THEN NoMeal
               ELSE [meal_id |-> made.meal,
                     meal_name |-> made.db.meals[made.meal].meal_name],
               <<>>)]

\* Step 4, on the store and the logs Step 3 left; or the outer except when
\* Step 3 raised.
AssembleMeal(logs, user, input_text, create_meal, processed_foods) ==
    IF logs.raised
    THEN [db |-> logs.db,
          result |-> Result(FALSE, processed_foods, logs.logs_created,
                            NoMeal, <<"InvalidOperation">>)]
    ELSE Assembled(processed_foods, logs.logs_created,
                   IF create_meal
                   THEN CreateMealFromFoods(logs.db, user, processed_foods,
                                            input_text)
                   ELSE [db |-> logs.db, meal |-> 0])

AssembleLogsAndMeal(db, user, input_text, create_meal, processed_foods) ==
    AssembleMeal(CreateFoodLogs(db, user, processed_foods, <<>>),
                 user, input_text, create_meal, processed_foods)

\* Mutant: a parsing call that led to no synthesis call is repeated.
GatewayCallsRetried(n) ==
    IF n = 0 THEN <<"parse", "parse">>
    ELSE <<"parse">> \o [i \in 1..n |-> "synthesis"]

GatewayCalls(n) == <<"parse">> \o [i \in 1..n |-> "synthesis"]

\* parse_food_input(input_text, create_meal) by `user'; parse_response is
\* the gateway's answer to the parsing prompt.  Returns [db, result, calls].
\* The run with its gateway calls.
WithCalls(assembled, calls) ==
    [db |-> assembled.db, calls |-> GatewayCalls(calls),
     result |-> assembled.result]

\* Steps 3 and 4 or the outer except, after the loop of Step 2 ended in
\* `all'.
AfterProcessing(all, user, input_text, create_meal) ==
    IF all.raised
    THEN [db |-> all.db, calls |-> GatewayCalls(all.calls),
          result |-> Result(FALSE, all.done, <<>>, NoMeal, <<all.error>>)]
    ELSE WithCalls(AssembleLogsAndMeal(all.db, user, input_text, create_meal,
                                       all.done),
                   all.calls)

\* Steps 1 and 2 on the outcome `parsed' of _parse_foods_from_text.
ProcessParsed(db, user, input_text, create_meal, parsed, responses) ==
    IF parsed.raised
    THEN [db |-> db, calls |-> GatewayCalls(0),
          result |-> Result(FALSE, <<>>, <<>>, NoMeal,
                            <<"AttributeError">>)]
    ELSE IF NothingParsed(parsed.foods)
    THEN [db |-> db, calls |-> GatewayCalls(0),
          result |-> Result(FALSE, <<>>, <<>>, NoMeal,
                            <<"No foods could be parsed from input">>)]
    ELSE AfterProcessing(ProcessAll(db, user, parsed.foods, responses, 0,
                                    <<>>),
                         user, input_text, create_meal)

ParseFoodInput(db, user, input_text, create_meal, parse_response, responses) ==
    ProcessParsed(db, user, input_text, create_meal,
                  ParseFoodsFromText(parse_response), responses)

----------------------------------------------------------------------------
(* Bounds and the inputs the model draws                                   *)

\* Number of requests in a behaviour.
MaxRuns == 1

\* Number of candidates in a parse response.
MaxCandidates == 2

Users == {"u1", "u2"}

Egg == <<"e", "g", "g">>
EggCapital == <<"E", "g", "g">>
Ham == <<"h", "a", "m">>
Oat == <<"o", "a", "t">>
Tea == <<"t", "e", "a">>
Kodiak == <<"K">>

\* A stored Food row: the defaults table overlaid with `fields'.
FoodRow(id, name, public, fields) ==
    [food_id |-> id, food_name |-> name, make_public |-> public,
     data |-> DictUpdate(Defaults, fields)]

EggFields == [calories |-> Num(16500), protein |-> Num(3100)]

HamFields == [calories |-> Num(14500), protein |-> Num(2100),
              serving_size |-> Num(100), unit |-> Str(<<"o", "z">>),
              brand |-> Str(Kodiak), cost |-> Num(250)]

EmptyStore ==
    [foods |-> <<>>, meals |-> <<>>, mealFoods |-> <<>>, foodLogs |-> <<>>]

\* A public and a private food; u1 owns the meal "tea" with two rows and u2
\* owns a meal "egg".
KitchenStore ==
    [foods |-> <<FoodRow(1, Egg, TRUE, EggFields),
                 FoodRow(2, Ham, FALSE, HamFields)>>,
     meals |-> <<[meal_id |-> 1, user |-> "u1", meal_name |-> Tea],
                 [meal_id |-> 2, user |-> "u2", meal_name |-> Egg]>>,
     mealFoods |-> <<[meal |-> 1, food |-> 1, servings |-> 200],
                     [meal |-> 1, food |-> 2, servings |-> 50],
                     [meal |-> 2, food |-> 1, servings |-> 100]>>,
     foodLogs |-> <<>>]

\* The variant name of "egg" and the numbered name of "oat" are taken; the
\* brand of "oat" is NULL.
CrowdedStore ==
    [foods |-> <<FoodRow(1, Egg, TRUE, EggFields),
                 FoodRow(2, Egg \o VariantSuffix, FALSE, EggFields),
                 FoodRow(3, Oat, TRUE, [brand |-> None]),
                 FoodRow(4, Oat \o NumberedSuffix(1), TRUE, EmptyDict)>>,
     meals |-> <<>>, mealFoods |-> <<>>, foodLogs |-> <<>>]

\* Two stored foods whose names differ by case only.
TwinStore ==
    [foods |-> <<FoodRow(1, EggCapital, FALSE, EggFields),
                 FoodRow(2, Egg, TRUE, EggFields)>>,
     meals |-> <<>>, mealFoods |-> <<>>, foodLogs |-> <<>>]

InitialStores == {EmptyStore, KitchenStore, CrowdedStore, TwinStore}

Candidate(name, metadata) == [name |-> name, metadata |-> metadata]

\* The candidates a parse response may list.
Candidates ==
    {Candidate(Egg, EmptyDict),
     Candidate(EggCapital, EmptyDict),
     Candidate(Egg, [calories |-> Num(20000)]),
     Candidate(Egg, [calories |-> Num(0), servings |-> Num(200)]),
     Candidate(Egg, [brand |-> Str(Kodiak)]),
     Candidate(Egg, [calories |-> Num(20000), food_name |-> Str(Ham)]),
     Candidate(Ham, [calories |-> Num(20000), make_public |-> Bool(TRUE)]),
     Candidate(Ham, [serving_size |-> Num(110)]),
     Candidate(Egg, [servings |-> Str(<<"x">>)]),
     Candidate(Oat, EmptyDict),
     Candidate(Oat, [calories |-> Num(20800), junk |-> Num(100)]),
     Candidate(Tea, EmptyDict),
     Candidate(Tea, [brand |-> None]),
     Candidate(Egg, [servings |-> Num(ServingsLimit)])}

CandidateLists ==
    UNION {[1..n -> Candidates] : n \in 0..MaxCandidates}

\* The answers of the gateway to a parsing prompt.
ParseResponses ==
    {Failure, NoContent, Text(<<Payload(Garbage)>>), Text(<<Payload(Scalar)>>),
     Text(<<Payload(Object(EmptyDict))>>)}
    \cup {Text(<<Payload(Array(l))>>) : l \in CandidateLists}
    \cup {Text(<<Fence, Payload(Array(<<c>>)), Fence>>) : c \in Candidates}
    \cup {Text(<<Payload(Array(<<Candidate(Egg, EmptyDict)>>)), Fence>>)}

\* The answers of the gateway to a synthesis prompt in a parse run.
SynthesisResponses ==
    {Failure,
     Text(<<Payload(Object([calories |-> Num(15000), fat |-> Num(500),
                            junk |-> Num(100)]))>>),
     Text(<<Payload(Array(<<Scalar>>))>>)}

EggPadded == <<" ", "e", "g", "g">>

InputTexts == {Tea, EggPadded, <<>>, <<" ">>}

\* The input_text entry of the request body: a JSON string, JSON null, or no
\* entry at all.
Absent == [t |-> "absent", n |-> 0, s |-> <<>>]

RequestInputs == {Str(t) : t \in InputTexts} \cup {None, Absent}

----------------------------------------------------------------------------
(* State and operations                                                    *)

Store == [foods |-> foods, meals |-> meals, mealFoods |-> mealFoods,
          foodLogs |-> foodLogs]

\* `last' records the latest request: its arguments, the gateway's answers,
\* what it returned, and the store (and the sizes of its tables) when it
\* began.
NoRequest == [op |-> "none"]

Init ==
    /\ \E db \in InitialStores :
          /\ foods = db.foods
          /\ meals = db.meals
          /\ mealFoods = db.mealFoods
          /\ foodLogs = db.foodLogs
    /\ runs = 0
    /\ last = NoRequest

\* One parse request, from the view's call to the returned composite result.
\* request.data.get('input_text', ''): the default stands in for a missing
\* entry.
GetInputText(request_input) ==
    IF request_input = Absent THEN Str(<<>>) ELSE request_input

\* The view has no answer of its own when .strip() is called on a value that
\* is not a string: the exception leaves the view (status 500); a blank text
\* is answered with 400.  0 when the request reaches the pipeline.
RejectedStatus(request_input) ==
    IF GetInputText(request_input).t # "str" THEN 500
    ELSE IF Strip(GetInputText(request_input).s) = <<>> THEN 400
    ELSE 0

\* The answers the gateway may give during a request: a request the view
\* rejects never reaches the gateway, so it has one (unread) answer.
GatewayAnswers(request_input, answers) ==
    IF RejectedStatus(request_input) # 0
    THEN {CHOOSE a \in answers : TRUE}
    ELSE answers

\* Mutant: a composite result with success = false is answered as a hard
\* failure.
ResultStatusHard(result) == IF result.success THEN 200 ELSE 500

\* The status of the response that carries a composite result.
ResultStatus(result) == IF result.success THEN 200 ELSE 207

\* One request to the parse endpoint, from the view to its response.
ParseRequest(user, request_input, create_meal, parse_response, responses) ==
    /\ IF RejectedStatus(request_input) # 0
       THEN /\ UNCHANGED <<foods, meals, mealFoods, foodLogs>>
            /\ last' = [op |-> "parse_rejected", user |-> user,
                        request_input |-> request_input,
                        status |-> RejectedStatus(request_input),
                        store |-> Store,
                        calls |-> <<>>]
       ELSE
       \E run \in {ParseFoodInput(Store, user,
                                   Strip(GetInputText(request_input).s),
                                   create_meal, parse_response, responses)} :
           /\ foods' = run.db.foods
           /\ meals' = run.db.meals
           /\ mealFoods' = run.db.mealFoods
           /\ foodLogs' = run.db.foodLogs
           /\ last' = [op |-> "parse", user |-> user,
                       request_input |-> request_input,
                       input_text |->
                           Strip(GetInputText(request_input).s),
                       status |-> ResultStatus(run.result),
                       store |-> Store,
                       create_meal |-> create_meal,
                       parse_response |-> parse_response,
                       responses |-> SubSeq(responses, 1,
                                            Len(run.calls) - 1),
                       before |-> [foods |-> Len(foods), meals |-> Len(meals),
                                   mealFoods |-> Len(mealFoods),
                                   foodLogs |-> Len(foodLogs)],
                       calls |-> run.calls,
                       result |-> run.result]

Parse(user, request_input, create_meal, parse_response, responses) ==
    /\ runs < MaxRuns
    /\ ParseRequest(user, request_input, create_meal, parse_response,
                    responses)
    /\ runs' = runs + 1

\* One generate_missing_metadata request.
MetadataRequest(food_name, partial_metadata, response) ==
    /\ last' = [op |-> "generate_metadata", food_name |-> food_name,
                partial_metadata |-> partial_metadata,
                response |-> response,
                out |-> GenerateMetadata(partial_metadata, response)]
    /\ UNCHANGED <<foods, meals, mealFoods, foodLogs>>

GenerateMissingMetadata(food_name, partial_metadata, response) ==
    /\ runs < MaxRuns
    /\ runs' = runs + 1
    /\ MetadataRequest(food_name, partial_metadata, response)

Next ==
    \/ \E user \in Users, request_input \in RequestInputs,
          create_meal \in BOOLEAN :
          \E parse_response \in GatewayAnswers(request_input, ParseResponses),
             responses \in GatewayAnswers(request_input,
                             [1..MaxCandidates -> SynthesisResponses]) :
            Parse(user, request_input, create_meal, parse_response,
                  responses)
    \/ \E metadata \in {c.metadata : c \in Candidates},
          response \in SynthesisResponses :
            GenerateMissingMetadata(Oat, metadata, response)

Spec == Init /\ [][Next]_vars

----------------------------------------------------------------------------
(* The synthesizer on its own: generate_missing_metadata over a wide range *)
(* of caller metadata and gateway answers.                                 *)

\* The dicts that give some of the keys of `choices' one of their values.
PartialDicts(choices) ==
    UNION {{f \in [S -> UNION {choices[k] : k \in S}] :
               \A k \in S : f[k] \in choices[k]} :
           S \in SUBSET DOMAIN choices}

CallerMetadata ==
    PartialDicts([calories |-> {Num(20000), Num(0), None},
                  brand |-> {Str(Kodiak), Str(<<>>)},
                  cost |-> {Num(150), None},
                  servings |-> {Num(200)}])

GatewayMetadata ==
    PartialDicts([calories |-> {Num(15000), None},
                  brand |-> {Str(<<"G">>)},
                  fat |-> {Num(500)},
                  junk |-> {Num(100)}])

WideSynthesisResponses ==
    {Failure, NoContent}
    \cup {Text(<<Payload(j)>>) :
            j \in {Garbage, Scalar, Array(<<>>), Array(<<Scalar>>)}}
    \cup {Text(<<Payload(Object(d))>>) : d \in GatewayMetadata}
    \cup {Text(<<Payload(Array(<<Object(d)>>))>>) : d \in GatewayMetadata}
    \cup {Text(<<Fence, Payload(Object(d)), Fence>>) :
            d \in {[calories |-> Num(15000), junk |-> Num(100)]}}
    \cup {Text(<<Fence, Payload(Object(EmptyDict))>>),
          Text(<<Payload(Object(EmptyDict)), Fence>>)}

\* The synthesizer is a function of its arguments and the gateway's answer:
\* one call per behaviour covers it.
NextSynthesis ==
    /\ runs = 0
    /\ \E metadata \in CallerMetadata, response \in WideSynthesisResponses :
          GenerateMissingMetadata(Oat, metadata, response)

SpecSynthesis == Init /\ [][NextSynthesis]_vars

\* A generate_missing_metadata request returned a map.
MetadataReturned == last.op = "generate_metadata" /\ ~last.out.raised

\* C1: caller precedence law. Whenever the synthesizer returns a map, every
\* key that is both in the caller metadata and in the whitelist holds the
\* caller's value, whatever that value is.
C1_CallerPrecedence ==
    MetadataReturned =>
        \A k \in DOMAIN last.partial_metadata \cap Whitelist :
            last.out.value[k] = last.partial_metadata[k]

\* C2 as stated: the key set of every returned map is the whitelist, a set
\* of 21 keys.
C2_KeySetIsThe21KeyWhitelist ==
    MetadataReturned =>
        /\ DOMAIN last.out.value = Whitelist
        /\ Cardinality(DOMAIN last.out.value) = 21

\* C2 (amended): the key set of every returned map is exactly the key set
\* of the defaults table, which has 22 keys; no other key survives and none
\* is missing, on the success path and on the fallback path.
C2_KeySetIsDefaultsKeys ==
    MetadataReturned =>
        /\ DOMAIN last.out.value = DOMAIN Defaults
        /\ Cardinality(DOMAIN last.out.value) = 22

\* C2 witness: the gateway's object carried a key outside the whitelist and
\* lacked most whitelist keys, the caller metadata carried `servings', and
\* a map was returned.
C2_Witness ==
    /\ MetadataReturned
    /\ last.response = Text(<<Payload(Object([calories |-> Num(15000),
                                              junk |-> Num(100)]))>>)
    /\ "servings" \in DOMAIN last.partial_metadata
    /\ last.out.value["calories"] = Num(15000)

----------------------------------------------------------------------------
(* The compatibility predicate on its own: _metadata_matches applied to a  *)
(* stored food and a wide range of caller metadata.                        *)

MatchMetadata ==
    PartialDicts([calories |-> {Num(15500), Num(17500), Num(17501),
                                Str(<<"x">>)},
                  protein |-> {Num(3300), Num(3301)},
                  brand |-> {Str(Kodiak), Str(<<>>), None},
                  serving_size |-> {Num(110), Num(10010), Num(10011)},
                  unit |-> {Str(<<"g">>), Str(<<"o", "z">>)},
                  servings |-> {Num(200)}])

\* One call _metadata_matches(food, metadata) on a stored food.
CheckMetadata(food, metadata) ==
    /\ runs = 0
    /\ runs' = runs + 1
    /\ last' = [op |-> "metadata_matches", food |-> food,
                metadata |-> metadata,
                out |-> MetadataMatches(food, metadata)]
    /\ UNCHANGED <<foods, meals, mealFoods, foodLogs>>

NextMatch ==
    \E i \in 1..Len(foods), metadata \in MatchMetadata :
        CheckMetadata(foods[i], metadata)

SpecMatch == Init /\ [][NextMatch]_vars

\* _metadata_matches returned a verdict.
VerdictReturned == last.op = "metadata_matches" /\ ~last.out.raised

\* The reference rule for one numeric key: the key is present and the
\* difference is above the tolerance, in exact arithmetic.
OutOfTolerance(food, metadata, key, tolerance) ==
    /\ key \in DOMAIN metadata
    /\ Abs(FloatValue(food.data[key]) - FloatValue(metadata[key])) > tolerance

\* The reference rule of C6 for the numeric and unit keys.
ReferenceViolation(food, metadata) ==
    \/ OutOfTolerance(food, metadata, "calories", 1000)
    \/ OutOfTolerance(food, metadata, "protein", 200)
    \/ OutOfTolerance(food, metadata, "serving_size", 10)
    \/ "unit" \in DOMAIN metadata /\ metadata["unit"] # food.data["unit"]

\* C6: on the numeric and unit keys the predicate agrees with the reference
\* rule. A present key that violates its tolerance makes the metadata
\* incompatible; metadata with no violating key (and no brand hint, which
\* C7 covers) is compatible, a difference equal to the tolerance included.
C6_AgreesWithToleranceRule ==
    VerdictReturned =>
        /\ ReferenceViolation(last.food, last.metadata) => ~last.out.value
        /\ (/\ ~ReferenceViolation(last.food, last.metadata)
            /\ "brand" \notin DOMAIN last.metadata) => last.out.value

\* The given brand differs from the stored one and the exception (stored
\* brand empty, brand the only key) does not apply.
BrandConflict(food, metadata) ==
    /\ metadata["brand"] # food.data["brand"]
    /\ ~(~Truthy(food.data["brand"]) /\ DOMAIN metadata = {"brand"})

\* C7 as stated: whenever the key brand is present, with any value, a brand
\* that differs from the stored one makes the metadata incompatible, except
\* that a stored food without brand is compatible when brand is the only key.
C7_BrandRuleForAnyValue ==
    (VerdictReturned /\ "brand" \in DOMAIN last.metadata) =>
        /\ BrandConflict(last.food, last.metadata) => ~last.out.value
        /\ (~Truthy(last.food.data["brand"])
            /\ DOMAIN last.metadata = {"brand"}) => last.out.value

\* C7 (amended): the rule holds whenever the given brand is non-empty; an
\* empty or null brand value is ignored by the predicate.
C7_BrandRuleForNonEmptyBrand ==
    (/\ VerdictReturned
     /\ "brand" \in DOMAIN last.metadata
     /\ Truthy(last.metadata["brand"])) =>
        /\ BrandConflict(last.food, last.metadata) => ~last.out.value
        /\ (~Truthy(last.food.data["brand"])
            /\ DOMAIN last.metadata = {"brand"}) => last.out.value

\* C7 witness: a brand hint next to an in-tolerance calories value, on a
\* stored food without brand: the exception does not apply and the verdict
\* is incompatible.
C7_Witness ==
    /\ VerdictReturned
    /\ last.metadata = [brand |-> Str(Kodiak), calories |-> Num(17500)]
    /\ last.food.data["brand"] = Str(<<>>)
    /\ last.food.data["calories"] = Num(16500)
    /\ ~last.out.value

----------------------------------------------------------------------------
(* Parse runs: what the latest run saw and did                             *)

ParseRan == last.op = "parse"

\* The candidates the run resolved, in order.
Resolved == last.result.foods_parsed

\* The store candidate i was resolved on (no row is ever changed or
\* removed, so the earlier store is a prefix of the present one).
StoreSeenBy(i) ==
    [foods |-> SubSeq(foods, 1, Resolved[i].seen),
     meals |-> SubSeq(meals, 1, last.before.meals),
     mealFoods |-> SubSeq(mealFoods, 1, last.before.mealFoods),
     foodLogs |-> SubSeq(foodLogs, 1, last.before.foodLogs)]

\* Food rows inserted while candidate i was resolved.
FoodsInsertedBy(i) ==
    (IF i < Len(Resolved) THEN Resolved[i + 1].seen ELSE Len(foods))
        - Resolved[i].seen

HoldsFood(i) == Resolved[i].food_object # 0

\* Resolved candidates up to i that hold a food object.
FoodRank(i) == Cardinality({j \in 1..i : HoldsFood(j)})

\* Candidate i, which holds a food object, got its FoodLog: the entry of
\* logs_created and the inserted row, for its food and servings.
LoggedOnce(i) ==
    LET k == FoodRank(i)
        row == last.before.foodLogs + k
    IN  /\ k <= Len(last.result.logs_created)
        /\ row <= Len(foodLogs)
        /\ last.result.logs_created[k].log_id = row
        /\ foodLogs[row].food = Resolved[i].food_object
        /\ foodLogs[row].servings = Resolved[i].servings
        /\ foodLogs[row].user = last.user

MealsOfCandidate(i) ==
    MealsMatching(StoreSeenBy(i), last.user, Resolved[i].name)

FoodsOfCandidate(i) == FoodsMatching(StoreSeenBy(i), Resolved[i].name)

\* C3: after any parse run, logs_created and the FoodLog rows the run
\* inserted are as many as the resolved candidates that hold a food object.
C3_OneLogPerFoodOutcome ==
    ParseRan =>
        LET n == Cardinality({i \in 1..Len(Resolved) : HoldsFood(i)})
        IN  /\ Len(last.result.logs_created) = n
            /\ Len(foodLogs) - last.before.foodLogs = n

\* The parse-stage answers C4 names: a failed call, text that is no JSON,
\* JSON that is no array, an empty array.
NothingToParse ==
    {Failure, Text(<<Payload(Garbage)>>), Text(<<Payload(Scalar)>>),
     Text(<<Payload(Object(EmptyDict))>>), Text(<<Payload(Array(<<>>))>>),
     Text(<<Payload(Array(<<Candidate(Egg, EmptyDict)>>)), Fence>>)}

\* C4: on such an answer the run returns success=false with exactly one
\* error, nothing parsed, nothing logged, no meal; it inserts no row and
\* calls the gateway once.
C4_NothingParsedFailsCleanly ==
    (ParseRan /\ last.parse_response \in NothingToParse) =>
        /\ ~last.result.success
        /\ Len(last.result.errors) = 1
        /\ last.result.foods_parsed = <<>>
        /\ last.result.logs_created = <<>>
        /\ last.result.meal_created = NoMeal
        /\ Len(foods) = last.before.foods
        /\ Len(meals) = last.before.meals
        /\ Len(mealFoods) = last.before.mealFoods
        /\ Len(foodLogs) = last.before.foodLogs
        /\ last.calls = <<"parse">>

\* C4 witness: the gateway answered the parsing prompt with a JSON object
\* while a meal was asked for, and the run failed.
C4_Witness ==
    /\ ParseRan
    /\ last.parse_response = Text(<<Payload(Object(EmptyDict))>>)
    /\ last.create_meal
    /\ Len(foods) > 0
    /\ ~last.result.success

\* C5: meals before foods. A resolved candidate whose name matches exactly
\* one meal of the acting user is a meal match that carries that meal and
\* no food object, and resolving it inserted no Food row and called the
\* gateway not at all; no resolved candidate carries both a meal and a food.
C5_MealMatchFirstAndTerminal ==
    ParseRan =>
        \A i \in 1..Len(Resolved) :
            /\ Cardinality(MealsOfCandidate(i)) = 1 =>
                  /\ Resolved[i].source = "meal"
                  /\ Resolved[i].meal_object \in MealsOfCandidate(i)
                  /\ Resolved[i].food_object = 0
                  /\ FoodsInsertedBy(i) = 0
                  /\ Resolved[i].calls = 0
            /\ ~(Resolved[i].meal_object # 0 /\ Resolved[i].food_object # 0)

\* C5 witness: the candidate "egg" of user u2, who owns a meal "egg" while
\* a food "egg" is stored, was resolved to the meal.
C5_Witness ==
    /\ ParseRan
    /\ last.user = "u2"
    /\ Len(Resolved) = 1
    /\ Resolved[1].name = Egg
    /\ FoodsOfCandidate(1) # {}
    /\ Resolved[1].source = "meal"
    /\ meals[Resolved[1].meal_object].meal_name = Egg

\* The stored food candidate i was compared with, and the verdict.
StoredFoodOf(i) == foods[First(FoodsOfCandidate(i))]

Compatible(i) ==
    LET verdict == MetadataMatches(StoredFoodOf(i), Resolved[i].metadata)
    IN  ~verdict.raised /\ verdict.value

\* Candidate i reached the food lookup and found a stored food.
FoundStoredFood(i) == MealsOfCandidate(i) = {} /\ FoodsOfCandidate(i) # {}

\* C8: a resolved candidate that reaches the food lookup, matches a stored
\* food by name and has compatible metadata is an exact match on a stored
\* food of that name: resolving it inserts no Food row and calls the gateway
\* not at all, and the run creates its one FoodLog, on the stored food.
C8_CompatibleMatchReusesStoredFood ==
    ParseRan =>
        \A i \in 1..Len(Resolved) :
            (FoundStoredFood(i) /\ Compatible(i)) =>
                /\ Resolved[i].source = "food_exact"
                /\ Resolved[i].food_object \in FoodsOfCandidate(i)
                /\ FoodsInsertedBy(i) = 0
                /\ Resolved[i].calls = 0
                /\ LoggedOnce(i)

\* The name is "{original} (variant)" or "{original} (variant N)".
IsVariantNameOf(name, original) ==
    \/ name = original \o VariantSuffix
    \/ \E n \in 2..(Len(foods) + 1) :
          name = original \o NumberedVariantSuffix(n)

\* Candidate i matched one stored food whose metadata it contradicts.
Incompatible(i) ==
    /\ FoundStoredFood(i)
    /\ Cardinality(FoodsOfCandidate(i)) = 1
    /\ ~Compatible(i)

\* C9: a resolved candidate that matches a single stored food with
\* incompatible metadata is a duplicate: exactly one Food row is inserted,
\* named as a variant of the original, equal to the original in every
\* nutrient/identity field except the whitelist keys the caller gave a truthy
\* value for, which hold the caller's value; its FoodLog is on the new row.
C9_DuplicateIsVariantOfOriginal ==
    ParseRan =>
        \A i \in 1..Len(Resolved) :
            Incompatible(i) =>
                /\ Resolved[i].source = "food_duplicate"
                /\ FoodsInsertedBy(i) = 1
                /\ Resolved[i].food_object = Resolved[i].seen + 1
                /\ LET new == foods[Resolved[i].food_object]
                       given == Resolved[i].metadata
                   IN  /\ IsVariantNameOf(new.food_name,
                                          StoredFoodOf(i).food_name)
                       /\ \A k \in Whitelist :
                            new.data[k] =
                                IF k \in DOMAIN given /\ Truthy(given[k])
                                THEN ColumnValue(k, given[k])
                                ELSE StoredFoodOf(i).data[k]
                /\ LoggedOnce(i)

\* The row a duplicate outcome created.
IsDuplicate(i) == Resolved[i].source = "food_duplicate"

----------------------------------------------------------------------------
(* The new-food path                                                       *)

\* Candidate i matched neither a meal of the acting user nor a stored food.
MatchedNothing(i) == MealsOfCandidate(i) = {} /\ FoodsOfCandidate(i) = {}

\* The gateway's answer to the synthesis call candidate i caused.
SynthesisResponseOf(i) ==
    last.responses[Cardinality({j \in 1..i : Resolved[j].calls = 1})]

\* The object the answer carries (the parsed layer), empty when it carries
\* none.
ParsedLayer(response) ==
    LET lines == IF response.success /\ ~response.null
                 THEN StripCodeFences(response.lines) ELSE <<>>
        json == IF Len(lines) = 1 THEN lines[1].json ELSE Garbage
    IN  IF json.t = "object" THEN json.obj
        ELSE IF json.t = "array" /\ Len(json.arr) > 0
                /\ json.arr[1].t = "object"
        THEN json.arr[1].obj
        ELSE EmptyDict

\* The value a whitelist column holds by the three-layer rule: the caller's
\* value if the caller gave the key, else the synthesized one, else the
\* default.
LayeredValue(k, given, layer) ==
    IF k \in DOMAIN given THEN ColumnValue(k, given[k])
    ELSE IF k \in DOMAIN layer /\ layer[k] # None
    THEN ColumnValue(k, layer[k])
    ELSE Defaults[k]

\* C11: a resolved candidate that matched no meal of the acting user and no
\* stored food is a new food: exactly one Food row was inserted for it, named
\* after the candidate and public, whose whitelist columns hold the caller's
\* value where the caller gave one and the synthesized value or else the
\* default elsewhere, and nothing but the whitelist columns.
C11_NewFoodRowIsLayered ==
    ParseRan =>
        \A i \in 1..Len(Resolved) :
            MatchedNothing(i) =>
                /\ Resolved[i].source = "food_new"
                /\ FoodsInsertedBy(i) = 1
                /\ Resolved[i].food_object = Resolved[i].seen + 1
                /\ Resolved[i].calls = 1
                /\ LET row == foods[Resolved[i].food_object]
                       layer == ParsedLayer(SynthesisResponseOf(i))
                   IN  /\ row.food_name = Resolved[i].name
                       /\ row.make_public
                       /\ DOMAIN row.data = Whitelist
                       /\ \A k \in Whitelist :
                            row.data[k] =
                                LayeredValue(k, Resolved[i].metadata, layer)

----------------------------------------------------------------------------
(* Names of inserted foods                                                 *)

\* The exceptions the run reported (str(e) in the errors of the result).
ErrorsOfRun == {last.result.errors[n] : n \in 1..Len(last.result.errors)}

\* C12: the food names of the store are pairwise distinct, and no Food
\* insert of a parse run is rejected by the uniqueness of food_name: every
\* insert of the duplicate path and of the new-food path uses a name that
\* is absent from the store.
C12_InsertsUseFreshNames ==
    /\ \A i, j \in 1..Len(foods) :
          i # j => foods[i].food_name # foods[j].food_name
    /\ ParseRan => "IntegrityError: food_name" \notin ErrorsOfRun

----------------------------------------------------------------------------
(* Name de-duplication as a function of the store and the name: the store  *)
(* holds a food, a run of names derived from it, and other rows.           *)

\* Longest run of taken names in a store of the naming specification.
MaxCollisions == 6

BaseNames == {Egg, Ham, Oat, Tea}

\* The n-th name the variant loop tries, and the n-th the new-food loop
\* tries after the name itself.
VariantNameNumber(name, n) ==
    name \o (IF n = 1 THEN VariantSuffix ELSE NumberedVariantSuffix(n))

NumberedNameNumber(name, n) == name \o NumberedSuffix(n)

\* A store with `name', k derived names of one kind in a row and, with
\* `more', one derived name of the other kind and an unrelated food.
NamingStore(name, variants, k, more) ==
    LET derived == [n \in 1..k |->
                       IF variants THEN VariantNameNumber(name, n)
                       ELSE NumberedNameNumber(name, n)]
        others == IF more
                  THEN <<IF variants THEN NumberedNameNumber(name, 1)
                         ELSE VariantNameNumber(name, 1),
                         <<"f", "i", "g">>>>
                  ELSE <<>>
        names == <<name>> \o derived \o others
    IN  [foods |-> [i \in 1..Len(names) |->
                       FoodRow(i, names[i], TRUE, EmptyDict)],
         meals |-> <<>>, mealFoods |-> <<>>, foodLogs |-> <<>>]

NamingStores ==
    {NamingStore(name, variants, k, more) :
        name \in BaseNames, variants \in BOOLEAN, k \in 0..MaxCollisions,
        more \in BOOLEAN}

InitNaming ==
    /\ \E db \in NamingStores :
          /\ foods = db.foods
          /\ meals = db.meals
          /\ mealFoods = db.mealFoods
          /\ foodLogs = db.foodLogs
    /\ runs = 0
    /\ last = NoRequest

\* The name _create_food_duplicate computes for a stored food.
NameVariant(original_food) ==
    /\ runs = 0
    /\ runs' = runs + 1
    /\ last' = [op |-> "variant_name", name |-> original_food.food_name,
                out |-> VariantName(Store, original_food.food_name)]
    /\ UNCHANGED <<foods, meals, mealFoods, foodLogs>>

\* The name _create_new_food computes for `name'.
NameNewFood(name) ==
    /\ runs = 0
    /\ runs' = runs + 1
    /\ last' = [op |-> "new_food_name", name |-> name,
                out |-> NewFoodName(Store, name)]
    /\ UNCHANGED <<foods, meals, mealFoods, foodLogs>>

NextNaming ==
    \/ \E i \in 1..Len(foods) : NameVariant(foods[i])
    \/ \E name \in BaseNames \cup {<<"f", "i", "g">>, <<"n", "u", "t">>} :
          NameNewFood(name)

SpecNaming == InitNaming /\ [][NextNaming]_vars

\* The collisions the variant loop meets for `name': the length of the run
\* of taken names "(variant)", "(variant 2)", ...
VariantCollisions(name) ==
    CHOOSE k \in 0..Len(foods) :
        /\ \A n \in 1..k : FoodNameExists(Store, VariantNameNumber(name, n))
        /\ ~FoodNameExists(Store, VariantNameNumber(name, k + 1))

\* The collisions the new-food loop meets for a taken `name': the length of
\* the run of taken names "(1)", "(2)", ...
NumberedCollisions(name) ==
    CHOOSE k \in 0..Len(foods) :
        /\ \A n \in 1..k : FoodNameExists(Store, NumberedNameNumber(name, n))
        /\ ~FoodNameExists(Store, NumberedNameNumber(name, k + 1))

\* C13: on both paths the search ends with a name that is absent from the
\* store, and after k collisions in its loop the name carries the number
\* k + 1: "(variant k+1)" on the variant path ("(variant)" when the loop
\* meets none), "(k+1)" on the new-food path when the name itself is taken.
C13_SuffixIsCollisionsPlusOne ==
    /\ last.op = "variant_name" =>
          /\ ~FoodNameExists(Store, last.out)
          /\ last.out = VariantNameNumber(last.name,
                                          VariantCollisions(last.name) + 1)
    /\ last.op = "new_food_name" =>
          /\ ~FoodNameExists(Store, last.out)
          /\ last.out =
                IF FoodNameExists(Store, last.name)
                THEN NumberedNameNumber(last.name,
                                        NumberedCollisions(last.name) + 1)
                ELSE last.name

\* C13 witness: five names of the run were taken and the loop chose the
\* number 6.
C13_Witness ==
    /\ last.op = "variant_name"
    /\ VariantCollisions(last.name) = 5
    /\ last.out = last.name \o NumberedVariantSuffix(6)

----------------------------------------------------------------------------
(* Meal assembly                                                           *)

\* The keys of the MealFood rows of meal m.
RowsOfMeal(m) == {n \in 1..Len(mealFoods) : mealFoods[n].meal = m}

\* The run asked for a meal and every step before the meal assembly
\* finished without an exception.
MealAsked == ParseRan /\ last.create_meal /\ last.result.success

\* The key the Meal row of the run has, if the run inserted one.
NewMeal == last.before.meals + 1

\* N + (k_1 + ... + k_M): one row per food outcome and one per MealFood row
\* of each referenced meal.
RowsDue ==
    Cardinality({i \in 1..Len(Resolved) : HoldsFood(i)})
    + Cardinality({p \in (1..Len(Resolved)) \X (1..Len(mealFoods)) :
                      /\ Resolved[p[1]].meal_object # 0
                      /\ mealFoods[p[2]].meal = Resolved[p[1]].meal_object})

\* C14: a run with create_meal = true whose candidates were all resolved
\* and logged creates one Meal, owned by the acting user, that ends with
\* N + (k_1 + ... + k_M) MealFood rows.
C14_MealHoldsAllRows ==
    MealAsked =>
        /\ Len(meals) = last.before.meals + 1
        /\ meals[NewMeal].user = last.user
        /\ Cardinality(RowsOfMeal(NewMeal)) = RowsDue

\* Candidate i was resolved to a meal of the acting user.
IsMealMatch(i) == Resolved[i].source = "meal"

\* Row n of the referenced meal has its copy in the new meal: a row with the
\* same food and the same servings.
CopiedToNewMeal(n) ==
    \E c \in RowsOfMeal(NewMeal) :
        /\ mealFoods[c].food = last.store.mealFoods[n].food
        /\ mealFoods[c].servings = last.store.mealFoods[n].servings

\* C15: in a run with create_meal = true whose candidates were all resolved
\* and logged, every MealFood row of a meal that a candidate referenced has
\* its copy, with the same food and servings, in the meal the run created;
\* the referenced meal and all rows that existed before are unchanged; and
\* the logs of the run are those of the candidates that hold a food.
C15_MealMatchIsCopied ==
    MealAsked =>
        \A i \in 1..Len(Resolved) :
            IsMealMatch(i) =>
                /\ Len(meals) = last.before.meals + 1
                /\ \A n \in 1..Len(last.store.mealFoods) :
                      last.store.mealFoods[n].meal = Resolved[i].meal_object
                          => CopiedToNewMeal(n)
                /\ SubSeq(meals, 1, last.before.meals) = last.store.meals
                /\ SubSeq(mealFoods, 1, last.before.mealFoods)
                      = last.store.mealFoods
                /\ Len(foodLogs) - last.before.foodLogs
                      = Cardinality({j \in 1..Len(Resolved) : HoldsFood(j)})

\* The candidates the parsing call of the latest run returned.
CandidatesOfRun == ParseFoodsFromText(last.parse_response).foods

\* The FoodLog table takes the servings of every resolved candidate that
\* holds a food object.
LogsAccepted ==
    \A i \in 1..Len(Resolved) : HoldsFood(i) => FoodLogAccepts(Resolved[i])

\* C16: in a parse run whose parsing call returned candidates, a candidate
\* whose resolution failed leaves its error in `errors' and every other
\* candidate has its entry in foods_parsed, so entries and errors together
\* are at least as many as the candidates; and every entry that holds a
\* food object is logged (when the log table accepts the servings of all of
\* them).
C16_NoCandidateIsSkipped ==
    (ParseRan /\ CandidatesOfRun # <<>>) =>
        /\ Len(Resolved) + Len(last.result.errors) >= Len(CandidatesOfRun)
        /\ LogsAccepted =>
              \A i \in 1..Len(Resolved) : HoldsFood(i) => LoggedOnce(i)

\* What the run did before it failed is in its result: every Food row it
\* inserted is held by an entry of foods_parsed and every FoodLog row it
\* inserted is an entry of logs_created.
PartialWorkReported ==
    /\ \A f \in (last.before.foods + 1)..Len(foods) :
          \E i \in 1..Len(Resolved) : Resolved[i].food_object = f
    /\ Len(last.result.logs_created) = Len(foodLogs) - last.before.foodLogs
    /\ \A k \in 1..Len(last.result.logs_created) :
          last.result.logs_created[k].log_id = last.before.foodLogs + k

\* Step 4 ran and raised: a meal was asked for, every candidate was resolved
\* and logged, and the result carries no meal.
MealAssemblyRaised ==
    /\ ParseRan /\ last.create_meal
    /\ CandidatesOfRun # <<>>
    /\ Len(Resolved) = Len(CandidatesOfRun)
    /\ LogsAccepted
    /\ last.result.meal_created = NoMeal

\* C17: every parse run returns a result; a result with success = false has
\* a non-empty errors list; the work done before a failure is in the result;
\* and a run whose meal assembly raised returns success = false.
C17_FailuresAreReported ==
    ParseRan =>
        /\ ~last.result.success => last.result.errors # <<>>
        /\ PartialWorkReported
        /\ MealAssemblyRaised => ~last.result.success

\* A generate_missing_metadata request whose gateway call carried content
\* or failed.
SynthesisAnswered ==
    last.op = "generate_metadata" /\ ~last.response.null

\* What the text of the gateway's answer parses to.
ParsedAnswer == JsonLoads(StripCodeFences(last.response.lines))

\* The answer is a list whose first element is an object.
FirstIsObject ==
    /\ ParsedAnswer.t = "array"
    /\ Len(ParsedAnswer.arr) > 0
    /\ ParsedAnswer.arr[1].t = "object"

\* The gateway call failed, or its text is not JSON, or it is JSON that is
\* neither an object nor a list whose first element is an object.
Degraded ==
    \/ ~last.response.success
    \/ ParsedAnswer.t # "object" /\ ~FirstIsObject

\* The returned map is the defaults table overlaid with the caller's
\* whitelisted entries.
DefaultsUnderCaller ==
    /\ ~last.out.raised
    /\ DOMAIN last.out.value = DOMAIN Defaults
    /\ \A k \in DOMAIN Defaults :
          last.out.value[k] =
              IF k \in DOMAIN last.partial_metadata
              THEN last.partial_metadata[k] ELSE Defaults[k]

\* C18: a synthesis whose gateway call failed or answered with non-JSON or
\* JSON of the wrong shape does not raise and returns the defaults overlaid
\* with the whitelisted caller metadata; an answer that is a list whose
\* first element is an object is treated as that object.
C18_DegradesToDefaults ==
    SynthesisAnswered =>
        /\ Degraded => DefaultsUnderCaller
        /\ (last.response.success /\ FirstIsObject) =>
              last.out = GenerateMetadata(
                             last.partial_metadata,
                             Text(<<Payload(ParsedAnswer.arr[1])>>))

\* The parsing call returned two candidates without metadata whose names
\* are equal up to letter case and match no meal of the user and no stored
\* food.
TwinCandidates ==
    /\ ParseRan
    /\ Len(CandidatesOfRun) = 2
    /\ \A i \in 1..2 : CandidatesOfRun[i].metadata = EmptyDict
    /\ IExact(Strip(CandidatesOfRun[1].name), Strip(CandidatesOfRun[2].name))
    /\ MealsMatching(last.store, last.user, Strip(CandidatesOfRun[1].name))
          = {}
    /\ FoodsMatching(last.store, Strip(CandidatesOfRun[1].name)) = {}

\* C19: of two such candidates the first is resolved to a new food and the
\* second, seeing the row the first inserted, to an exact match on it: the
\* run inserts one Food row, makes one synthesis call and creates two logs
\* of that row.
C19_LaterCandidateSeesEarlierRow ==
    TwinCandidates =>
        /\ Len(Resolved) = 2
        /\ Resolved[1].source = "food_new"
        /\ Resolved[2].source = "food_exact"
        /\ Resolved[1].food_object = last.before.foods + 1
        /\ Resolved[2].food_object = last.before.foods + 1
        /\ Len(foods) = last.before.foods + 1
        /\ last.calls = <<"parse", "synthesis">>
        /\ Len(foodLogs) = last.before.foodLogs + 2
        /\ \A n \in 1..2 :
              foodLogs[last.before.foodLogs + n].food = last.before.foods + 1
        /\ Len(last.result.logs_created) = 2

\* The request carried no input_text entry, or one that is blank.
BlankOrMissing(request_input) ==
    \/ request_input = Absent
    \/ request_input.t = "str" /\ Strip(request_input.s) = <<>>

\* C20: a request whose input_text is blank or missing is answered with 400,
\* without a gateway call and with the store as it was; a request that
\* reaches the pipeline is answered with 200 when the composite result has
\* success = true and with 207, carrying the result, when it has success =
\* false (whether or not a candidate was resolved).
C20_StatusOfParseResponse ==
    /\ (last.op \in {"parse", "parse_rejected"}
            /\ BlankOrMissing(last.request_input)) =>
          /\ last.op = "parse_rejected"
          /\ last.status = 400
          /\ last.calls = <<>>
          /\ Store = last.store
    /\ ParseRan =>
          /\ ~BlankOrMissing(last.request_input)
          /\ last.result.success => last.status = 200
          /\ ~last.result.success => last.status = 207

\* C20 witness: a run that failed after it had resolved a candidate and
\* inserted its Food row was answered with 207.
C20_Witness ==
    /\ ParseRan
    /\ ~last.result.success
    /\ Len(Resolved) > 0
    /\ Len(foods) > last.before.foods
    /\ last.status = 207

----------------------------------------------------------------------------
(* Sequences of requests: several parse and generate_metadata requests on  *)
(* one store, every meal of which a parse run created.                     *)

\* Number of requests in a sequence.
MaxSequence == 3

\* Two stored foods and no meal.
PantryStore == [KitchenStore EXCEPT !.meals = <<>>, !.mealFoods = <<>>]

SequenceStores == {EmptyStore, PantryStore}

\* Input texts that are a food name, and differ in letter case only.
SequenceTexts == {Egg, EggCapital}

SequenceCandidates ==
    {Candidate(Egg, EmptyDict),
     Candidate(EggCapital, EmptyDict),
     Candidate(Egg, [calories |-> Num(20000)])}

InitRuns ==
    /\ \E db \in SequenceStores :
          /\ foods = db.foods
          /\ meals = db.meals
          /\ mealFoods = db.mealFoods
          /\ foodLogs = db.foodLogs
    /\ runs = 0
    /\ last = NoRequest

\* A parse request whose parsing call returns one candidate; a synthesis
\* call, if made, fails and the defaults are used.
ParseInSequence(user, text, create_meal, candidate) ==
    /\ runs < MaxSequence
    /\ ParseRequest(user, Str(text), create_meal,
                    Text(<<Payload(Array(<<candidate>>))>>),
                    [i \in 1..MaxCandidates |-> Failure])
    /\ runs' = runs + 1

MetadataInSequence ==
    /\ runs < MaxSequence
    /\ MetadataRequest(Oat, [calories |-> Num(20000)], Failure)
    /\ runs' = runs + 1

NextRuns ==
    \/ \E user \in Users, text \in SequenceTexts, create_meal \in BOOLEAN,
          candidate \in SequenceCandidates :
            ParseInSequence(user, text, create_meal, candidate)
    \/ MetadataInSequence

SpecRuns == InitRuns /\ [][NextRuns]_vars

----------------------------------------------------------------------------
(* Claims about the Food table as an append-only table                     *)

\* C21: no step updates or deletes a Food row: every row that existed
\* before the step is there after it, unchanged, at the same key; and a
\* generate_metadata request changes no row of any table.
C21_FoodRowsAreNeverChanged ==
    [][/\ Len(foods') >= Len(foods)
       /\ SubSeq(foods', 1, Len(foods)) = foods
       /\ last'.op = "generate_metadata" =>
             UNCHANGED <<foods, meals, mealFoods, foodLogs>>]_vars

\* C21 witness: the latest of several requests resolved its candidate on
\* the duplicate path and inserted the variant row beside the original.
C21_Witness ==
    /\ ParseRan
    /\ runs > 1
    /\ Len(Resolved) = 1
    /\ IsDuplicate(1)
    /\ Len(foods) = last.before.foods + 1

----------------------------------------------------------------------------
(* Several stored foods with the candidate's name                          *)

\* Candidate i reached the food lookup and found two or more stored foods.
FoundSeveralFoods(i) ==
    MealsOfCandidate(i) = {} /\ Cardinality(FoodsOfCandidate(i)) >= 2

\* Candidate i was resolved as a single match on stored food f would be.
ResolvedAsSingleMatch(i, f) ==
    LET verdict == MetadataMatches(foods[f], Resolved[i].metadata)
    IN  /\ ~verdict.raised
        /\ IF verdict.value
           THEN /\ Resolved[i].source = "food_exact"
                /\ Resolved[i].food_object = f
           ELSE /\ Resolved[i].source = "food_duplicate"
                /\ FoodsInsertedBy(i) = 1
                /\ Resolved[i].food_object = Resolved[i].seen + 1

\* C22: a resolved candidate whose name matches two or more stored foods is
\* resolved on one of them as a single match would be: an exact match when
\* its metadata is compatible with that food, a duplicate with a new variant
\* row when it is not.
C22_SeveralMatchesAreEvaluated ==
    ParseRan =>
        \A i \in 1..Len(Resolved) :
            FoundSeveralFoods(i) =>
                \E f \in FoodsOfCandidate(i) : ResolvedAsSingleMatch(i, f)

----------------------------------------------------------------------------
(* Meal naming: parse requests with create_meal = true on stores whose     *)
(* owners hold meals with the base name and its numbered forms.            *)

\* An input text longer than the base name may be, with a space as its 50th
\* character.
LongText == [i \in 1..(MealNameLength + 2) |->
                IF i = MealNameLength THEN " " ELSE "a"]

MealTexts == {Tea, EggPadded, LongText}

\* input_text[:50].strip()
BaseName(input_text) ==
    Strip(SubSeq(input_text, 1,
                 IF Len(input_text) < MealNameLength
                 THEN Len(input_text) ELSE MealNameLength))

\* The meals a store may hold: the base name and its numbered forms, per
\* owner.
MealChoices(base) ==
    <<[user |-> "u1", meal_name |-> base],
      [user |-> "u1", meal_name |-> base \o NumberedSuffix(2)],
      [user |-> "u1", meal_name |-> base \o NumberedSuffix(3)],
      [user |-> "u2", meal_name |-> base],
      [user |-> "u2", meal_name |-> base \o NumberedSuffix(2)]>>

\* The store that holds the food "egg" and the chosen meals.
MealStore(base, chosen) ==
    LET held == SelectSeq([i \in 1..5 |-> i], LAMBDA i : i \in chosen)
    IN  [foods |-> <<FoodRow(1, Egg, TRUE, EggFields)>>,
         meals |-> [n \in 1..Len(held) |->
                       [meal_id |-> n,
                        user |-> MealChoices(base)[held[n]].user,
                        meal_name |-> MealChoices(base)[held[n]].meal_name]],
         mealFoods |-> <<>>,
         foodLogs |-> <<>>]

MealStores ==
    {MealStore(base, chosen) :
        base \in {Tea, BaseName(LongText)}, chosen \in SUBSET (1..5)}

InitMealName ==
    /\ \E db \in MealStores :
          /\ foods = db.foods
          /\ meals = db.meals
          /\ mealFoods = db.mealFoods
          /\ foodLogs = db.foodLogs
    /\ runs = 0
    /\ last = NoRequest

\* A parse request with create_meal = true whose one candidate is the
\* stored food.
ParseWithMeal(user, text) ==
    /\ runs = 0
    /\ ParseRequest(user, Str(text), TRUE,
                    Text(<<Payload(Array(<<Candidate(Egg, EmptyDict)>>))>>),
                    [i \in 1..MaxCandidates |-> Failure])
    /\ runs' = runs + 1

NextMealNaming ==
    \E user \in Users, text \in MealTexts : ParseWithMeal(user, text)

SpecMealName == InitMealName /\ [][NextMealNaming]_vars

\* The acting user owned a meal of that name when the request began.
OwnedBefore(name) ==
    \E m \in 1..Len(last.store.meals) :
        /\ last.store.meals[m].user = last.user
        /\ last.store.meals[m].meal_name = name

\* C23: a run with create_meal = true that reaches meal assembly inserts
\* one meal, owned by the acting user.  Its name is the first 50 characters
\* of the input text, trimmed, when the user owned no meal of that name;
\* otherwise that base followed by " (N)" for the smallest N >= 2 that was
\* free among the user's meals.  The name was not among the user's meals,
\* whatever meals other users own.
C23_MealNameIsFirstFree ==
    MealAsked =>
        /\ Len(meals) = last.before.meals + 1
        /\ meals[NewMeal].user = last.user
        /\ ~OwnedBefore(meals[NewMeal].meal_name)
        /\ IF ~OwnedBefore(BaseName(last.input_text))
           THEN meals[NewMeal].meal_name = BaseName(last.input_text)
           ELSE \E N \in 2..(Len(meals) + 1) :
                   /\ meals[NewMeal].meal_name =
                         BaseName(last.input_text) \o NumberedSuffix(N)
                   /\ \A M \in 2..(N - 1) :
                         OwnedBefore(BaseName(last.input_text)
                                        \o NumberedSuffix(M))

\* C23 witness: the text was longer than 50 characters, the user owned the
\* base name and its form (2), another user owned the form (2) too, and
\* the new meal took the form (3).
C23_Witness ==
    /\ MealAsked
    /\ Len(last.input_text) > MealNameLength
    /\ OwnedBefore(BaseName(last.input_text))
    /\ \E m \in 1..Len(last.store.meals) :
          /\ last.store.meals[m].user # last.user
          /\ last.store.meals[m].meal_name =
                BaseName(last.input_text) \o NumberedSuffix(2)
    /\ meals[NewMeal].meal_name =
          BaseName(last.input_text) \o NumberedSuffix(3)

----------------------------------------------------------------------------
(* Gateway calls of a parse run                                            *)

\* The run ended while it resolved a candidate that had reached the
\* new-food path: its servings were read and neither a meal of the user nor
\* a stored food had its name (the store has not changed since).
AbortedOnNewFoodPath ==
    /\ Len(Resolved) < Len(CandidatesOfRun)
    /\ LET c == CandidatesOfRun[Len(Resolved) + 1]
       IN  /\ ServingsOk(c.metadata)
           /\ MealsMatching(Store, last.user, Strip(c.name)) = {}
           /\ FoodsMatching(Store, Strip(c.name)) = {}

\* The candidates of the run that reached the new-food path.
NewFoodPaths ==
    Cardinality({i \in 1..Len(Resolved) : Resolved[i].source = "food_new"})
        + (IF AbortedOnNewFoodPath THEN 1 ELSE 0)

\* C24: the gateway calls of a parse run are one parsing call followed by
\* one synthesis call per candidate that reached the new-food path, whatever
\* the gateway answered; a candidate resolved to a meal, an exact match or
\* a duplicate caused no call and a new food exactly one.
C24_OneCallPerPurpose ==
    ParseRan =>
        /\ last.calls = <<"parse">> \o [n \in 1..NewFoodPaths |-> "synthesis"]
        /\ \A i \in 1..Len(Resolved) :
              Resolved[i].calls =
                  IF Resolved[i].source = "food_new" THEN 1 ELSE 0

\* C24 witness: the first synthesis call of a run failed and the run went
\* on to a second new food, with one more call; three calls in all.
C24_Witness ==
    /\ ParseRan
    /\ Len(Resolved) = 2
    /\ \A i \in 1..2 : Resolved[i].source = "food_new"
    /\ ~last.responses[1].success
    /\ last.calls = <<"parse", "synthesis", "synthesis">>

----------------------------------------------------------------------------
(* Two concurrent parse runs.  Each run is a request of its own; nothing   *)
(* in the pipeline opens a transaction, so every query and every INSERT of *)
(* a run is a step of its own and the steps of the two runs interleave.    *)
(* Each run has one candidate, without metadata, and create_meal = false.  *)
(* `last.run[p]' is the position and the local variables of run p.         *)

Racers == {"A", "B"}

\* The acting user of each run.
RacerUser == [A |-> "u1", B |-> "u2"]

\* "oat" is absent; in the second store its first numbered name is taken.
RaceStores ==
    {EmptyStore,
     [EmptyStore EXCEPT
         !.foods = <<FoodRow(1, Oat \o NumberedSuffix(1), TRUE, EmptyDict)>>]}

\* A run before its first query: the candidate's name and the answer the
\* gateway will give to its synthesis prompt.
RaceStart(name, response) ==
    [pc |-> "meal_lookup", name |-> name, response |-> response,
     complete_metadata |-> Raised, food_name |-> <<>>, counter |-> 0,
     food_object |-> 0, attempts |-> 0, source |-> "",
     success |-> TRUE, errors |-> <<>>]

InitRace ==
    /\ \E db \in RaceStores :
          /\ foods = db.foods
          /\ meals = db.meals
          /\ mealFoods = db.mealFoods
          /\ foodLogs = db.foodLogs
    /\ runs = 0
    /\ \E name \in {Oat, Tea}, a, b \in SynthesisResponses :
          last = [op |-> "race",
                  run |-> [A |-> RaceStart(Oat, a),
                           B |-> RaceStart(name, b)]]

Racing(p, pc) == last.op = "race" /\ last.run[p].pc = pc

\* The run moves on with some of its local variables changed; the store is
\* as it was.
RaceLocal(p, changed) ==
    /\ last' = [last EXCEPT !.run[p] = changed]
    /\ UNCHANGED <<foods, meals, mealFoods, foodLogs, runs>>

\* The outer except of parse_food_input.
RaceFailed(r, error) ==
    [r EXCEPT !.pc = "done", !.success = FALSE, !.errors = <<error>>]

\* Meal.objects.get(user=self.user, meal_name__iexact=name)
RaceMealLookup(p) ==
    /\ Racing(p, "meal_lookup")
    /\ LET r == last.run[p]
           found == MealsMatching(Store, RacerUser[p], r.name)
       IN  RaceLocal(p,
               IF found = {} THEN [r EXCEPT !.pc = "food_lookup"]
               ELSE IF Cardinality(found) = 1
               THEN [r EXCEPT !.pc = "done", !.source = "meal"]
               ELSE RaceFailed(r, "MultipleObjectsReturned"))

\* Food.objects.get(food_name__iexact=name); the candidate has no metadata,
\* which is compatible with any stored food.
RaceFoodLookup(p) ==
    /\ Racing(p, "food_lookup")
    /\ LET r == last.run[p]
           found == FoodsMatching(Store, r.name)
       IN  RaceLocal(p,
               IF found = {}
               THEN [r EXCEPT !.pc = "synthesis", !.source = "food_new"]
               ELSE [r EXCEPT !.pc = "log", !.source = "food_exact",
                              !.food_object = First(found)])

\* _generate_metadata(name, metadata): the gateway call of the run.
RaceSynthesis(p) ==
    /\ Racing(p, "synthesis")
    /\ LET r == last.run[p]
           complete == GenerateMetadata(EmptyDict, r.response)
       IN  RaceLocal(p,
               IF complete.raised THEN RaceFailed(r, "AttributeError")
               ELSE [r EXCEPT !.pc = "exists",
                              !.complete_metadata = complete])

\* if Food.objects.filter(food_name=food_name).exists()
RaceExists(p) ==
    /\ Racing(p, "exists")
    /\ LET r == last.run[p]
       IN  RaceLocal(p,
               IF FoodNameExists(Store, r.name)
               THEN [r EXCEPT !.pc = "rename", !.counter = 1]
               ELSE [r EXCEPT !.pc = "insert", !.food_name = r.name])

\* One test of `while Food.objects.filter(food_name=f"{name} ({counter})")'.
RaceRename(p) ==
    /\ Racing(p, "rename")
    /\ LET r == last.run[p]
           numbered == r.name \o NumberedSuffix(r.counter)
       IN  RaceLocal(p,
               IF FoodNameExists(Store, numbered)
               THEN [r EXCEPT !.counter = r.counter + 1]
               ELSE [r EXCEPT !.pc = "insert", !.food_name = numbered])

\* Food.objects.create(**complete_metadata)
RaceInsert(p) ==
    /\ Racing(p, "insert")
    /\ LET r == last.run[p]
           made == CreateFood(Store, Str(r.food_name), Bool(TRUE),
                              r.complete_metadata.value)
       IN  /\ foods' = made.db.foods
           /\ last' = [last EXCEPT !.run[p] =
                         IF made.raised
                         THEN [RaceFailed(r, made.error)
                                  EXCEPT !.attempts = r.attempts + 1]
                         ELSE [r EXCEPT !.pc = "log",
                                        !.attempts = r.attempts + 1,
                                        !.food_object = made.id]]
    /\ UNCHANGED <<meals, mealFoods, foodLogs, runs>>

\* Step 3 of parse_food_input: the FoodLog of the resolved food.
RaceLog(p) ==
    /\ Racing(p, "log")
    /\ LET r == last.run[p]
           logged == CreateFoodLog(Store, RacerUser[p],
                                   [food_object |-> r.food_object,
                                    servings |-> 100])
       IN  /\ foodLogs' = logged.foodLogs
           /\ last' = [last EXCEPT !.run[p] = [r EXCEPT !.pc = "done"]]
    /\ UNCHANGED <<foods, meals, mealFoods, runs>>

NextRace ==
    \E p \in Racers :
        \/ RaceMealLookup(p)
        \/ RaceFoodLookup(p)
        \/ RaceSynthesis(p)
        \/ RaceExists(p)
        \/ RaceRename(p)
        \/ RaceInsert(p)
        \/ RaceLog(p)

SpecRace == InitRace /\ [][NextRace]_vars

\* No two Food rows have the same name.
FoodNamesUnique ==
    \A i, j \in 1..Len(foods) :
        foods[i].food_name = foods[j].food_name => i = j

\* Both runs took the new-food path for the same name and both passed the
\* existence check while the name was free, and both have ended.
BothPassedTheCheck ==
    /\ last.op = "race"
    /\ \A p \in Racers :
          /\ last.run[p].pc = "done"
          /\ last.run[p].source = "food_new"
          /\ last.run[p].attempts > 0
    /\ last.run["A"].food_name = last.run["B"].food_name

\* Run p lost: its one INSERT was rejected and left it with success = false
\* and an error, no food and no log.
LostTheRace(p) ==
    /\ ~last.run[p].success
    /\ last.run[p].errors # <<>>
    /\ last.run[p].attempts = 1
    /\ last.run[p].food_object = 0
    /\ \A n \in 1..Len(foodLogs) : foodLogs[n].user # RacerUser[p]

\* Run p won: its food is in the store under the name it chose.
WonTheRace(p) ==
    /\ last.run[p].success
    /\ last.run[p].attempts = 1
    /\ last.run[p].food_object \in 1..Len(foods)
    /\ foods[last.run[p].food_object].food_name = last.run[p].food_name

\* C25: in every state of every interleaving of the two runs no two Food
\* rows have the same name; and when both runs passed the existence check
\* for the same name before either inserted, one run's INSERT succeeded and
\* the other's was rejected: the losing run made no second attempt and chose
\* no other name, and ended with success = false and an error.
C25_RaceOnNewFoodName ==
    /\ FoodNamesUnique
    /\ BothPassedTheCheck =>
          \E p \in Racers :
              /\ WonTheRace(p)
              /\ \A q \in Racers \ {p} : LostTheRace(q)

\* C25 witness: both runs passed the check for "oat" and have ended, run B
\* with its INSERT rejected.
C25_Witness ==
    /\ BothPassedTheCheck
    /\ last.run["A"].food_name = Oat
    /\ LostTheRace("B")
    /\ WonTheRace("A")

----------------------------------------------------------------------------
(* Meal lookup after sequences of runs                                     *)

\* The meals the acting user owned when the latest request began whose name
\* equals `name' up to letter case.
OwnMealsNamed(name) ==
    {m \in 1..Len(last.store.meals) :
        /\ last.store.meals[m].user = last.user
        /\ IExact(last.store.meals[m].meal_name, name)}

\* The latest run had a first candidate, whose name is that of a meal of
\* the acting user.
FirstCandidateNamesOwnMeal ==
    /\ ParseRan
    /\ CandidatesOfRun # <<>>
    /\ OwnMealsNamed(Strip(CandidatesOfRun[1].name)) # {}

\* C26: after any sequence of parse runs, a candidate whose name equals, up
\* to letter case, the name of a meal the acting user owns is resolved to
\* one of those meals, and the run succeeds.
C26_OwnMealIsMatched ==
    FirstCandidateNamesOwnMeal =>
        /\ last.result.success
        /\ Len(Resolved) >= 1
        /\ Resolved[1].source = "meal"
        /\ Resolved[1].meal_object
              \in OwnMealsNamed(Strip(CandidatesOfRun[1].name))

----------------------------------------------------------------------------
(* The reported meal and the stored meal                                   *)

\* C27: after a parse run the result reports a meal exactly when the run
\* inserted a Meal row, and the reported key and name are those of the
\* inserted row; a run that reports no meal has inserted neither a Meal row
\* nor a MealFood row.
C27_ReportedMealIsStoredMeal ==
    ParseRan =>
        /\ (last.result.meal_created # NoMeal)
              <=> (Len(meals) > last.before.meals)
        /\ last.result.meal_created # NoMeal =>
              /\ Len(meals) = last.before.meals + 1
              /\ last.result.meal_created.meal_id = NewMeal
              /\ last.result.meal_created.meal_name
                    = meals[NewMeal].meal_name
        /\ last.result.meal_created = NoMeal =>
              /\ Len(meals) = last.before.meals
              /\ Len(mealFoods) = last.before.mealFoods

----------------------------------------------------------------------------
(* The variant row and the metadata that asked for it                      *)

\* C28: the Food row a duplicate outcome created is compatible with the
\* candidate's metadata: _metadata_matches of the new row and that metadata
\* returns true.
C28_VariantMatchesItsMetadata ==
    ParseRan =>
        \A i \in 1..Len(Resolved) :
            IsDuplicate(i) =>
                MetadataMatches(foods[Resolved[i].food_object],
                                Resolved[i].metadata) = Verdict(TRUE)

\* An earlier run of the acting user created a meal named after its input
\* text, a stored food has that name too, and the one candidate of the
\* latest run has that name, up to letter case.  (Every meal of these
\* sequences was created by a parse run with create_meal = true.)
MealShadowsFood ==
    /\ FirstCandidateNamesOwnMeal
    /\ Len(CandidatesOfRun) = 1
    /\ FoodsMatching(last.store, Strip(CandidatesOfRun[1].name)) # {}

\* C29: once a parse run has created a meal named after a food, a later
\* candidate of the same user with that name is resolved to the meal, not
\* to the stored food: the run inserts no FoodLog row and no Food row.
C29_MealShadowsFoodAcrossRuns ==
    MealShadowsFood =>
        /\ Len(Resolved) = 1
        /\ Resolved[1].source = "meal"
        /\ Len(foodLogs) = last.before.foodLogs
        /\ Len(foods) = last.before.foods

----------------------------------------------------------------------------
(* Meal ownership isolation                                                *)

\* The key meal m of `db' has once the meals of other users are removed.
OwnKey(db, user, m) ==
    Cardinality({j \in 1..m : db.meals[j].user = user})

\* The store without the meals, and the MealFood rows, of users other than
\* `user'; the remaining meals are renumbered in order.
WithoutOtherMeals(db, user) ==
    LET kept == SelectSeq(db.meals, LAMBDA meal : meal.user = user)
        rows == SelectSeq(db.mealFoods,
                          LAMBDA mf : db.meals[mf.meal].user = user)
    IN  [db EXCEPT
            !.meals = [n \in 1..Len(kept) |-> [kept[n] EXCEPT !.meal_id = n]],
            !.mealFoods = [n \in 1..Len(rows) |->
                              [rows[n] EXCEPT
                                  !.meal = OwnKey(db, user, rows[n].meal)]]]

\* The latest run again, on the store it began with less the meals of
\* other users, with the same gateway answers.
RunWithoutOtherMeals ==
    ParseFoodInput(WithoutOtherMeals(last.store, last.user), last.user,
                   last.input_text, last.create_meal, last.parse_response,
                   last.responses \o [i \in 1..MaxCandidates |-> Failure])

\* The (food, servings) rows of meal m in the MealFood table `rows'.
FoodsOfMeal(rows, m) ==
    LET of == SelectSeq(rows, LAMBDA mf : mf.meal = m)
    IN  [n \in 1..Len(of) |-> [food |-> of[n].food,
                               servings |-> of[n].servings]]

\* An entry of foods_parsed without its meal key, which numbers meals of
\* all users.
Unkeyed(entry) == [entry EXCEPT !.meal_object = 0]

\* The run and the run `ref' on the store without the meals of other users
\* have the same outcome: the same entries (a matched meal being the same
\* meal), errors and logs, the same Food and FoodLog tables, the same meal
\* name and the same rows in the meal created.
SameOutcome(ref) ==
    /\ last.result.success = ref.result.success
    /\ last.result.errors = ref.result.errors
    /\ last.calls = ref.calls
    /\ Len(Resolved) = Len(ref.result.foods_parsed)
    /\ \A i \in 1..Len(Resolved) :
          /\ Unkeyed(Resolved[i]) = Unkeyed(ref.result.foods_parsed[i])
          /\ IsMealMatch(i) =>
                OwnKey(last.store, last.user, Resolved[i].meal_object)
                    = ref.result.foods_parsed[i].meal_object
    /\ last.result.logs_created = ref.result.logs_created
    /\ foods = ref.db.foods
    /\ foodLogs = ref.db.foodLogs
    /\ last.result.meal_created.meal_name
          = ref.result.meal_created.meal_name
    /\ Len(meals) - last.before.meals
          = Len(ref.db.meals)
               - Len(WithoutOtherMeals(last.store, last.user).meals)
    /\ Len(meals) > last.before.meals =>
          /\ meals[NewMeal].meal_name
                = ref.db.meals[Len(ref.db.meals)].meal_name
          /\ FoodsOfMeal(mealFoods, NewMeal)
                = FoodsOfMeal(ref.db.mealFoods, Len(ref.db.meals))

\* Every row the run inserted in the Meal and FoodLog tables is owned by
\* the acting user, and no meal of another user was matched.
OnlyOwnRows ==
    /\ \A m \in (last.before.meals + 1)..Len(meals) :
          meals[m].user = last.user
    /\ \A n \in (last.before.foodLogs + 1)..Len(foodLogs) :
          foodLogs[n].user = last.user
    /\ \A i \in 1..Len(Resolved) :
          IsMealMatch(i) =>
              last.store.meals[Resolved[i].meal_object].user = last.user

\* C30: the outcome of a parse run does not depend on the meals of other
\* users: it is the outcome of the same run on the store without them (so
\* it is the same on any two stores that differ in such meals only); no
\* meal of another user is matched or copied, and the Meal and FoodLog rows
\* the run inserts are the acting user's.
C30_OtherOwnersMealsDoNotMatter ==
    ParseRan => (SameOutcome(RunWithoutOtherMeals) /\ OnlyOwnRows)

\* C30 witness: another user owned a meal with the name of a candidate; the
\* candidate was resolved to the stored food and went into the meal the run
\* created.
C30_Witness ==
    /\ MealAsked
    /\ last.result.meal_created # NoMeal
    /\ \E i \in 1..Len(Resolved) :
          /\ Resolved[i].source = "food_exact"
          /\ \E m \in 1..Len(last.store.meals) :
                /\ last.store.meals[m].user # last.user
                /\ IExact(last.store.meals[m].meal_name, Resolved[i].name)

====
